---- MODULE Spec2Model ----
(***************************************************************************)
(* Gesture-Voxel: the voxel world (VoxelWorld), the undo/redo history      *)
(* (HistoryManager) and the gesture dispatcher (GestureActions).           *)
(*                                                                         *)
(* the rule-based recognizer (GestureRecognizer), the intersector          *)
(* (VoxelRenderer.raycastToGrid) and the frame pipeline (App).             *)
(*                                                                         *)
(* The specifications share the state:                                     *)
(*   SpecWorld      - the VoxelWorld API called directly                   *)
(*   SpecHistory    - the HistoryManager API called directly               *)
(*   Spec           - gestures dispatched by GestureActions                *)
(*   SpecEdit       - an editing session of PINCH, FIST and swipes         *)
(*   SpecRecognizer - the GestureRecognizer API called directly            *)
(*   SpecPipeline   - frames through App.processHandResults                *)
(*   SpecNormal     - getHitFaceNormal applied to points about a voxel     *)
(*   SpecLine       - Canvas2DRenderer.interpolateBlocks, step by step     *)
(***************************************************************************)
EXTENDS Integers, Sequences, FiniteSets, TLC

VARIABLES
    voxels,         \* VoxelWorld.voxels: Map in insertion order, <<[key, colorIndex]>>
    seen,           \* what the subscribed observer read through getAllVoxels(),
                    \* one entry per notification of the last operation
    op,             \* the last VoxelWorld call: its arguments, result, world before
    history,        \* HistoryManager.history
    currentIndex,   \* HistoryManager.currentIndex
    maxHistory,     \* HistoryManager.maxHistory
    hop,            \* the last HistoryManager call: its result, cursor and entries before
    run,            \* the calls made on the HistoryManager since it was new:
                    \* saveState^N undo^M redo^R, or something else ("off")
    currentMode,            \* GestureActions.currentMode
    currentColorIndex,      \* GestureActions.currentColorIndex
    lastActionTime,         \* GestureActions.lastActionTime
    lastColorChangeTime,    \* GestureActions.lastColorChangeTime
    lastUndoTime,           \* GestureActions.lastUndoTime
    lastCursorPosition,     \* GestureActions.lastCursorPosition
    isOrbitActive,          \* GestureActions.isOrbitActive
    cursor,         \* VoxelRenderer.cursorMesh: visible, position, color
    now,            \* Date.now()
    frame,          \* the last call of the dispatcher: gesture, target, what it did
    pend,           \* the world before the last PINCH or FIST that changed it,
                    \* until a SWIPE_LEFT is executed
    trail,          \* the gestures that passed their guards, in order, since the start
    frames,         \* the steps the session is still followed for; -1: no limit
    previousHandPosition,   \* GestureRecognizer.previousHandPosition
    swipeStartPosition,     \* GestureRecognizer.swipeStartPosition
    swipeStartTime,         \* GestureRecognizer.swipeStartTime
    rec             \* the last call of the recognizer or of the frame pipeline:
                    \* its input, its result, the rolling state before

dispVars ==
    <<currentMode, currentColorIndex, lastActionTime, lastColorChangeTime,
      lastUndoTime, lastCursorPosition, isOrbitActive, cursor, now, frame,
      pend, trail, frames>>

recVars == <<previousHandPosition, swipeStartPosition, swipeStartTime, rec>>

vars ==
    <<voxels, seen, op, history, currentIndex, maxHistory, hop, run, dispVars, recVars>>

worldVars == <<voxels, seen, op>>
histVars == <<history, currentIndex, maxHistory, hop, run>>

----------------------------------------------------------------------------
(* Program constants *)

GRID_SIZE == 16
NumColors == 8

(* Bounds of the model *)

MaxBlob == 2        \* longest hand-written blob given to setState
MaxCap == 3         \* largest maxHistory a HistoryManager is constructed with
MaxRun == 4         \* longest saveState^N prefix followed call by call
StartTime == 1000   \* Date.now() when the application starts
MaxElapsed == 1210  \* an editing session is followed for this many milliseconds
MaxFrames == 4      \* a session of all the gestures is followed for this many steps
MaxTrail == 4       \* longest sequence of executed gestures followed one by one
MaxPipelineFrames == 3  \* the frame pipeline is followed for this many steps
MaxCoord == 3       \* grid coordinates of the 2D canvas run over 0..MaxCoord

(* Inputs *)

\* coordinates handed to the VoxelWorld API: inside and outside [0, GRID_SIZE)
Positions ==
    { <<0, 0, 0>>, <<15, 0, 3>>,
      <<-1, 0, 0>>, <<0, 16, 0>>, <<3, 0, -12>> }

ColorInputs == {0, 7}

----------------------------------------------------------------------------
(* Strings are sequences of one-character strings. *)

Digits == <<"0", "1", "2", "3", "4", "5", "6", "7", "8", "9">>

RECURSIVE NatToStr(_)
NatToStr(n) ==
    IF n < 10 THEN <<Digits[n + 1]>>
    ELSE NatToStr(n \div 10) \o <<Digits[(n % 10) + 1]>>

\* String(n) of an integer, as in a template literal or JSON.stringify
ToStr(n) == IF n < 0 THEN <<"-">> \o NatToStr(-n) ELSE NatToStr(n)

DigitVal(c) == CHOOSE d \in 0..9 : Digits[d + 1] = c

RECURSIVE StrToNat(_)
StrToNat(s) ==
    IF Len(s) = 0 THEN 0
    ELSE 10 * StrToNat(SubSeq(s, 1, Len(s) - 1)) + DigitVal(s[Len(s)])

\* Number(s) of the decimal text of an integer
Number(s) ==
    IF Len(s) > 0 /\ s[1] = "-" THEN 0 - StrToNat(Tail(s)) ELSE StrToNat(s)

\* s.split(',')
RECURSIVE Split(_)
Split(s) ==
    IF \A i \in 1..Len(s) : s[i] # ","
    THEN <<s>>
    ELSE LET i == CHOOSE j \in 1..Len(s) :
                      s[j] = "," /\ \A k \in 1..(j - 1) : s[k] # ","
         IN  <<SubSeq(s, 1, i - 1)>> \o Split(SubSeq(s, i + 1, Len(s)))

----------------------------------------------------------------------------
(* VoxelWorld *)

getKey(x, y, z) == ToStr(x) \o <<",">> \o ToStr(y) \o <<",">> \o ToStr(z)

parseKey(key) ==
    LET parts == Split(key)
    IN  [x |-> Number(parts[1]), y |-> Number(parts[2]), z |-> Number(parts[3])]

\* isValidPosition with an inclusive upper bound
isValidPosition_Inclusive(x, y, z) ==
    /\ x >= 0 /\ x <= GRID_SIZE
    /\ y >= 0 /\ y <= GRID_SIZE
    /\ z >= 0 /\ z <= GRID_SIZE

isValidPosition(x, y, z) ==
    /\ x >= 0 /\ x < GRID_SIZE
    /\ y >= 0 /\ y < GRID_SIZE
    /\ z >= 0 /\ z < GRID_SIZE

\* Map.has / Map.get / Map.set / Map.delete on a Map kept in insertion order
MapHas(w, key) == \E i \in 1..Len(w) : w[i].key = key

MapGet(w, key) == w[CHOOSE i \in 1..Len(w) : w[i].key = key]

MapSet(w, key, colorIndex) ==
    IF MapHas(w, key)
    THEN [i \in 1..Len(w) |->
            IF w[i].key = key THEN [key |-> key, colorIndex |-> colorIndex] ELSE w[i]]
    ELSE Append(w, [key |-> key, colorIndex |-> colorIndex])

MapDelete(w, key) == SelectSeq(w, LAMBDA e : e.key # key)

hasVoxel(w, x, y, z) == MapHas(w, getKey(x, y, z))

getAllVoxels(w) ==
    [i \in 1..Len(w) |->
        LET p == parseKey(w[i].key)
        IN  [x |-> p.x, y |-> p.y, z |-> p.z, colorIndex |-> w[i].colorIndex]]

getCount(w) == Len(w)

\* The observers are the callbacks registered with subscribe(); the renderer's
\* reads getAllVoxels() each time it is called.  notifyListeners appends what
\* it read to the log of the running operation.
notifyListeners(w, log) == Append(log, getAllVoxels(w))

NoRet == [added |-> FALSE, wasNew |-> FALSE, removed |-> FALSE]

\* addVoxel without the bounds check
addVoxel_Unchecked(w, log, x, y, z, colorIndex) ==
    LET key == getKey(x, y, z)
        existed == MapHas(w, key)
        w2 == MapSet(w, key, colorIndex)
    IN  [voxels |-> w2,
         seen |-> notifyListeners(w2, log),
         ret |-> [added |-> TRUE, wasNew |-> ~existed, removed |-> FALSE]]

\* Each operation yields the new Map, the notification log and the result.
addVoxel(w, log, x, y, z, colorIndex) ==
    IF ~isValidPosition(x, y, z)
    THEN [voxels |-> w, seen |-> log, ret |-> NoRet]
    ELSE LET key == getKey(x, y, z)
             existed == MapHas(w, key)
             w2 == MapSet(w, key, colorIndex)
         IN  [voxels |-> w2,
              seen |-> notifyListeners(w2, log),
              ret |-> [added |-> TRUE, wasNew |-> ~existed, removed |-> FALSE]]

\* removeVoxel notifying whether or not an entry existed
removeVoxel_AlwaysNotifies(w, log, x, y, z) ==
    LET key == getKey(x, y, z)
        existed == MapHas(w, key)
        w2 == MapDelete(w, key)
    IN  [voxels |-> w2,
         seen |-> notifyListeners(w2, log),
         ret |-> [added |-> FALSE, wasNew |-> FALSE, removed |-> existed]]

removeVoxel(w, log, x, y, z) ==
    LET key == getKey(x, y, z)
        existed == MapHas(w, key)
    IN  IF existed
        THEN LET w2 == MapDelete(w, key)
             IN  [voxels |-> w2,
                  seen |-> notifyListeners(w2, log),
                  ret |-> [added |-> FALSE, wasNew |-> FALSE, removed |-> TRUE]]
        ELSE [voxels |-> w, seen |-> log, ret |-> NoRet]

clear(w, log) ==
    [voxels |-> <<>>, seen |-> notifyListeners(<<>>, log), ret |-> NoRet]

toJSON(w) == getAllVoxels(w)

\* JSON.stringify of an array of {x, y, z, colorIndex}: the numbers as decimal text
JSONstringify(data) ==
    [i \in 1..Len(data) |->
        [x |-> ToStr(data[i].x), y |-> ToStr(data[i].y),
         z |-> ToStr(data[i].z), colorIndex |-> ToStr(data[i].colorIndex)]]

\* JSON.parse reading every colorIndex as 0
JSONparse_DropsColor(text) ==
    [i \in 1..Len(text) |->
        [x |-> Number(text[i].x), y |-> Number(text[i].y),
         z |-> Number(text[i].z), colorIndex |-> 0]]

JSONparse(text) ==
    [i \in 1..Len(text) |->
        [x |-> Number(text[i].x), y |-> Number(text[i].y),
         z |-> Number(text[i].z), colorIndex |-> Number(text[i].colorIndex)]]

RECURSIVE AddAll(_, _, _, _)
AddAll(w, log, data, i) ==
    IF i > Len(data) THEN [voxels |-> w, seen |-> log, ret |-> NoRet]
    ELSE LET r == addVoxel(w, log, data[i].x, data[i].y, data[i].z, data[i].colorIndex)
         IN  AddAll(r.voxels, r.seen, data, i + 1)

\* this.voxels.clear() is the Map's clear: no notification
fromJSON(w, log, data) == AddAll(<<>>, log, data, 1)

getState(w) == JSONstringify(toJSON(w))

setState(w, log, stateString) == fromJSON(w, log, JSONparse(stateString))

\* the enumerated voxel set
VoxelSet(w) == { getAllVoxels(w)[i] : i \in 1..Len(w) }

----------------------------------------------------------------------------
(* The VoxelWorld API, called directly *)

\* again: the call repeats a removeVoxel of the same coordinate that removed an entry
EmptyOp ==
    [name |-> "new", pos |-> <<>>, blob |-> <<>>, pre |-> <<>>, ret |-> NoRet,
     again |-> FALSE]

\* the records hand-written blobs are made of: two cells, one of them in two
\* colors, and a cell outside the grid
Records ==
    { [x |-> 0, y |-> 0, z |-> 0, colorIndex |-> 0],
      [x |-> 0, y |-> 0, z |-> 0, colorIndex |-> 7],
      [x |-> 15, y |-> 0, z |-> 3, colorIndex |-> 7],
      [x |-> 0, y |-> 16, z |-> 0, colorIndex |-> 0] }

\* arrays of voxel records, as a caller of setState may have serialized them
Blobs ==
    { JSONstringify(d) :
        d \in UNION { [1..n -> Records] : n \in 0..MaxBlob } }

Commit(r, o) ==
    /\ voxels' = r.voxels
    /\ seen' = r.seen
    /\ op' = [o EXCEPT !.pre = voxels, !.ret = r.ret]

AddVoxel ==
    \E p \in Positions, c \in ColorInputs :
        /\ Commit(addVoxel(voxels, <<>>, p[1], p[2], p[3], c),
                  [EmptyOp EXCEPT !.name = "addVoxel", !.pos = p])
        /\ UNCHANGED <<histVars, dispVars, recVars>>

RemoveVoxel ==
    \E p \in Positions :
        /\ Commit(removeVoxel(voxels, <<>>, p[1], p[2], p[3]),
                  [EmptyOp EXCEPT !.name = "removeVoxel", !.pos = p,
                                  !.again = /\ op.name = "removeVoxel"
                                            /\ op.pos = p
                                            /\ op.ret.removed])
        /\ UNCHANGED <<histVars, dispVars, recVars>>

Clear ==
    /\ Commit(clear(voxels, <<>>), [EmptyOp EXCEPT !.name = "clear"])
    /\ UNCHANGED <<histVars, dispVars, recVars>>

\* setState of a blob written by hand or taken from getState() just before
SetState ==
    \E b \in Blobs \cup {getState(voxels)} :
        /\ Commit(setState(voxels, <<>>, b),
                  [EmptyOp EXCEPT !.name = "setState", !.blob = b])
        /\ UNCHANGED <<histVars, dispVars, recVars>>

----------------------------------------------------------------------------
(* HistoryManager *)

DefaultMaxHistory == 50

Null == [isNull |-> TRUE, state |-> <<>>]
Entry(state) == [isNull |-> FALSE, state |-> state]

\* saveState appending without discarding the entries past the cursor
saveState_KeepsFuture(h, idx, cap, state) ==
    LET h2 == Append(h, state)
        idx2 == Len(h2) - 1
    IN  IF Len(h2) > cap
        THEN [history |-> Tail(h2), currentIndex |-> idx2 - 1, ret |-> Null]
        ELSE [history |-> h2, currentIndex |-> idx2, ret |-> Null]

\* saveState evicting the newest entry instead of the oldest
saveState_EvictsNewest(h, idx, cap, state) ==
    LET h1 == IF idx < Len(h) - 1 THEN SubSeq(h, 1, idx + 1) ELSE h
        h2 == Append(h1, state)
        idx2 == Len(h2) - 1
    IN  IF Len(h2) > cap
        THEN [history |-> SubSeq(h2, 1, Len(h2) - 1), currentIndex |-> idx2 - 1,
              ret |-> Null]
        ELSE [history |-> h2, currentIndex |-> idx2, ret |-> Null]

\* saveState evicting the oldest entry without moving the cursor down
saveState_KeepsCursor(h, idx, cap, state) ==
    LET h1 == IF idx < Len(h) - 1 THEN SubSeq(h, 1, idx + 1) ELSE h
        h2 == Append(h1, state)
        idx2 == Len(h2) - 1
    IN  IF Len(h2) > cap
        THEN [history |-> Tail(h2), currentIndex |-> idx2, ret |-> Null]
        ELSE [history |-> h2, currentIndex |-> idx2, ret |-> Null]

\* Each operation yields the new entries and cursor, and the value returned.
saveState(h, idx, cap, state) ==
    LET h1 == IF idx < Len(h) - 1 THEN SubSeq(h, 1, idx + 1) ELSE h
        h2 == Append(h1, state)
        idx2 == Len(h2) - 1
    IN  IF Len(h2) > cap
        THEN [history |-> Tail(h2), currentIndex |-> idx2 - 1, ret |-> Null]
        ELSE [history |-> h2, currentIndex |-> idx2, ret |-> Null]

\* undo refusing to step down to the first entry
undo_StopsAtOne(h, idx) ==
    IF idx > 1
    THEN [history |-> h, currentIndex |-> idx - 1, ret |-> Entry(h[(idx - 1) + 1])]
    ELSE [history |-> h, currentIndex |-> idx, ret |-> Null]

\* an undo that hands back the first entry when the cursor is already on it
undo_AtZero(h, idx) ==
    IF idx > 0
    THEN [history |-> h, currentIndex |-> idx - 1, ret |-> Entry(h[(idx - 1) + 1])]
    ELSE IF idx = 0
    THEN [history |-> h, currentIndex |-> idx, ret |-> Entry(h[1])]
    ELSE [history |-> h, currentIndex |-> idx, ret |-> Null]

undo(h, idx) ==
    IF idx > 0
    THEN [history |-> h, currentIndex |-> idx - 1, ret |-> Entry(h[(idx - 1) + 1])]
    ELSE [history |-> h, currentIndex |-> idx, ret |-> Null]

\* redo returning the next entry without advancing the cursor
redo_KeepsCursor(h, idx) ==
    IF idx < Len(h) - 1
    THEN [history |-> h, currentIndex |-> idx, ret |-> Entry(h[(idx + 1) + 1])]
    ELSE [history |-> h, currentIndex |-> idx, ret |-> Null]

redo(h, idx) ==
    IF idx < Len(h) - 1
    THEN [history |-> h, currentIndex |-> idx + 1, ret |-> Entry(h[(idx + 1) + 1])]
    ELSE [history |-> h, currentIndex |-> idx, ret |-> Null]

canUndo(h, idx) == idx > 0

canRedo(h, idx) == idx < Len(h) - 1

historyClear == [history |-> <<>>, currentIndex |-> -1, ret |-> Null]

EmptyHop == [name |-> "new", ret |-> Null, preIndex |-> -1, preHistory |-> <<>>]

NewRun ==
    [phase |-> "save", saves |-> 0, undos |-> 0, redos |-> 0,
     index0 |-> -1, entry0 |-> Null, pushed |-> <<>>]

OffRun == [NewRun EXCEPT !.phase = "off"]

\* the entry under the cursor
Current(h, idx) == IF idx >= 0 /\ idx < Len(h) THEN Entry(h[idx + 1]) ELSE Null

\* r: what the call yields; a saved state is the last entry it leaves
RunAfter(name, r) ==
    CASE name = "clear" -> NewRun
      [] name = "saveState" ->
            IF run.phase = "save" /\ run.saves < MaxRun
            THEN [run EXCEPT !.saves = @ + 1,
                             !.pushed = Append(@, r.history[Len(r.history)])]
            ELSE OffRun
      [] name = "undo" ->
            IF run.phase = "save" /\ run.saves >= 1
            THEN [run EXCEPT !.phase = "undo", !.undos = 1,
                             !.index0 = currentIndex,
                             !.entry0 = Current(history, currentIndex)]
            ELSE IF run.phase = "undo" /\ run.undos < run.saves
            THEN [run EXCEPT !.undos = @ + 1] ELSE OffRun
      [] name = "redo" ->
            IF run.phase = "undo"
            THEN [run EXCEPT !.phase = "redo", !.redos = 1]
            ELSE IF run.phase = "redo" /\ run.redos < run.undos
            THEN [run EXCEPT !.redos = @ + 1] ELSE OffRun

HCommit(r, name) ==
    /\ history' = r.history
    /\ currentIndex' = r.currentIndex
    /\ hop' = [name |-> name, ret |-> r.ret,
               preIndex |-> currentIndex, preHistory |-> history]
    /\ run' = RunAfter(name, r)
    /\ UNCHANGED maxHistory

\* the states saved in SpecHistory: the serialized worlds of zero, one and two voxels
StateInputs ==
    { getState(<<>>),
      getState(addVoxel(<<>>, <<>>, 0, 0, 0, 0).voxels),
      getState(addVoxel(addVoxel(<<>>, <<>>, 0, 0, 0, 0).voxels, <<>>, 15, 0, 3, 7).voxels) }

SaveState ==
    \E st \in StateInputs :
        /\ HCommit(saveState(history, currentIndex, maxHistory, st), "saveState")
        /\ UNCHANGED <<worldVars, dispVars, recVars>>

Undo ==
    /\ HCommit(undo(history, currentIndex), "undo")
    /\ UNCHANGED <<worldVars, dispVars, recVars>>

Redo ==
    /\ HCommit(redo(history, currentIndex), "redo")
    /\ UNCHANGED <<worldVars, dispVars, recVars>>

HistoryClear ==
    /\ HCommit(historyClear, "clear")
    /\ UNCHANGED <<worldVars, dispVars, recVars>>

----------------------------------------------------------------------------
(* VoxelRenderer: cursor and raycast *)

NullPos ==
    [isNull |-> TRUE, x |-> 0, y |-> 0, z |-> 0,
     hasHit |-> FALSE, hx |-> 0, hy |-> 0, hz |-> 0]

GroundPos(x, z) == [NullPos EXCEPT !.isNull = FALSE, !.x = x, !.z = z]

HitPos(v, n) ==
    [isNull |-> FALSE, x |-> v.x + n[1], y |-> v.y + n[2], z |-> v.z + n[3],
     hasHit |-> TRUE, hx |-> v.x, hy |-> v.y, hz |-> v.z]

HiddenCursor == [visible |-> FALSE, x |-> 0, y |-> 0, z |-> 0, colorIndex |-> 0]

\* a setCursorPosition that shows the cursor at any coordinate that is not null
setCursorPosition_Unchecked(cur, isNull, x, y, z, colorIndex) ==
    IF ~isNull
    THEN [visible |-> TRUE, x |-> x, y |-> y, z |-> z, colorIndex |-> colorIndex]
    ELSE [cur EXCEPT !.visible = FALSE]

\* setCursorPosition(x, y, z, colorIndex); setCursorPosition(null) is isNull
setCursorPosition(cur, isNull, x, y, z, colorIndex) ==
    IF ~isNull /\ isValidPosition(x, y, z)
    THEN [visible |-> TRUE, x |-> x, y |-> y, z |-> z, colorIndex |-> colorIndex]
    ELSE [cur EXCEPT !.visible = FALSE]

\* Lengths are in quarters of a voxel edge: the voxel at v spans
\* [Unit*v - Half, Unit*v + Half] on each axis.
Unit == 4
Half == 2

\* A ray is the camera position o and a direction d (not normalized), both
\* integer; t counts steps of d from the camera, so that on one ray the
\* distance to the camera grows with t.  The rays of the model are chosen so
\* that every crossing of a box face or of the ground falls on an integer t.
At(ray, t) == [k \in 1..3 |-> ray.o[k] + t * ray.d[k]]

\* Ray.intersectPlane with the ground plane y = 0: the step of the hit, or none
intersectGround(ray) ==
    IF ray.d[2] = 0
    THEN IF ray.o[2] = 0 THEN [hit |-> TRUE, t |-> 0] ELSE [hit |-> FALSE, t |-> 0]
    ELSE LET t == (0 - ray.o[2]) \div ray.d[2]
         IN  IF t >= 0 THEN [hit |-> TRUE, t |-> t] ELSE [hit |-> FALSE, t |-> 0]

\* the interval of t in which the ray is between lo and hi on axis k
\* (1 / 0 is Infinity: the whole line when the origin is between, else nothing)
Slab(ray, k, lo, hi) ==
    LET o == ray.o[k]
        d == ray.d[k]
    IN  IF d > 0 THEN [any |-> TRUE, all |-> FALSE, near |-> (lo - o) \div d, far |-> (hi - o) \div d]
        ELSE IF d < 0 THEN [any |-> TRUE, all |-> FALSE, near |-> (hi - o) \div d, far |-> (lo - o) \div d]
        ELSE [any |-> (lo < o /\ o < hi), all |-> TRUE, near |-> 0, far |-> 0]

\* Ray.intersectBox with the box of the voxel at (x, y, z): the step of the
\* point returned, or none
intersectBox(ray, x, y, z) ==
    LET c == <<x, y, z>>
        sl == [k \in 1..3 |-> Slab(ray, k, Unit * c[k] - Half, Unit * c[k] + Half)]
        bounded == { k \in 1..3 : ~sl[k].all }
        tmin == CHOOSE t \in { sl[k].near : k \in bounded } :
                    \A k \in bounded : sl[k].near <= t
        tmax == CHOOSE t \in { sl[k].far : k \in bounded } :
                    \A k \in bounded : t <= sl[k].far
    IN  IF (\E k \in 1..3 : ~sl[k].any) \/ bounded = {} THEN [hit |-> FALSE, t |-> 0]
        ELSE IF tmin > tmax \/ tmax < 0 THEN [hit |-> FALSE, t |-> 0]
        ELSE [hit |-> TRUE, t |-> IF tmin >= 0 THEN tmin ELSE tmax]

Abs(n) == IF n < 0 THEN 0 - n ELSE n

\* a getHitFaceNormal that prefers Y to X on a tie
getHitFaceNormal_YFirst(p, x, y, z) ==
    LET dx == p[1] - Unit * x
        dy == p[2] - Unit * y
        dz == p[3] - Unit * z
        ax == Abs(dx)
        ay == Abs(dy)
        az == Abs(dz)
    IN  IF ay >= ax /\ ay >= az THEN <<0, IF dy > 0 THEN 1 ELSE -1, 0>>
        ELSE IF ax >= ay /\ ax >= az THEN <<IF dx > 0 THEN 1 ELSE -1, 0, 0>>
        ELSE <<0, 0, IF dz > 0 THEN 1 ELSE -1>>

\* getHitFaceNormal(intersection, voxel), the point in quarters
getHitFaceNormal(p, x, y, z) ==
    LET dx == p[1] - Unit * x
        dy == p[2] - Unit * y
        dz == p[3] - Unit * z
        ax == Abs(dx)
        ay == Abs(dy)
        az == Abs(dz)
    IN  IF ax >= ay /\ ax >= az THEN <<IF dx > 0 THEN 1 ELSE -1, 0, 0>>
        ELSE IF ay >= ax /\ ay >= az THEN <<0, IF dy > 0 THEN 1 ELSE -1, 0>>
        ELSE <<0, 0, IF dz > 0 THEN 1 ELSE -1>>

\* Math.floor(c + 0.5) of a coordinate in quarters
Round(c) == (c + Half) \div Unit

\* the candidate of the ground hit, if it is recorded
GroundCandidates(w, ray) ==
    LET g == intersectGround(ray)
        p == At(ray, g.t)
    IN  IF g.hit /\ isValidPosition(Round(p[1]), 0, Round(p[3]))
        THEN << [pos |-> GroundPos(Round(p[1]), Round(p[3])), distance |-> g.t] >>
        ELSE <<>>

\* the candidates of the struck voxels that are recorded, in Map order
RECURSIVE VoxelCandidates(_, _, _)
VoxelCandidates(all, ray, i) ==
    IF i > Len(all) THEN <<>>
    ELSE LET v == all[i]
             b == intersectBox(ray, v.x, v.y, v.z)
             n == getHitFaceNormal(At(ray, b.t), v.x, v.y, v.z)
         IN  (IF b.hit /\ isValidPosition(v.x + n[1], v.y + n[2], v.z + n[3])
              THEN << [pos |-> HitPos(v, n), distance |-> b.t] >>
              ELSE <<>>)
             \o VoxelCandidates(all, ray, i + 1)

Candidates(w, ray) == GroundCandidates(w, ray) \o VoxelCandidates(getAllVoxels(w), ray, 1)

\* the first candidate of least distance from index i on, best so far at b
RECURSIVE Closest(_, _, _)
Closest(c, i, b) ==
    IF i > Len(c) THEN b
    ELSE Closest(c, i + 1, IF c[i].distance < c[b].distance THEN i ELSE b)

\* a raycastToGrid that returns the first candidate recorded, unsorted
raycastToGrid_Unsorted(w, ray) ==
    LET c == Candidates(w, ray)
    IN  IF Len(c) > 0 THEN c[1].pos ELSE NullPos

\* intersections.sort by distance (stable) and intersections[0], or null
raycastToGrid(w, ray) ==
    LET c == Candidates(w, ray)
    IN  IF Len(c) > 0 THEN c[Closest(c, 2, 1)].pos ELSE NullPos

\* The rays of the model, all in the plane z = 8, the camera about 25 away
\* from the centre of the grid:
\*   from the +x side, descending, through the +x face of cell (15,0,8) to
\*     the ground inside that cell;
\*   from the +x side, descending, through the top face of (15,0,8) to the
\*     ground in (14,0,8);
\*   from the -x side, descending, to the ground in (14,0,8);
\*   from the +x side, level, a quarter above the ground.
Rays ==
    { [o |-> <<130, 35, 32>>, d |-> <<-2, -1, 0>>],
      [o |-> <<128, 36, 32>>, d |-> <<-2, -1, 0>>],
      [o |-> <<-68, 62, 32>>, d |-> <<2, -1, 0>>],
      [o |-> <<130, 1, 32>>, d |-> <<-2, 0, 0>>] }

\* the anchor position handed to a handler: null, or a landmark, which stands
\* for the ray the camera casts through it
NoAnchor == [isNull |-> TRUE, o |-> <<0, 0, 0>>, d |-> <<0, 0, 0>>]

Anchors == {NoAnchor} \cup { [isNull |-> FALSE, o |-> r.o, d |-> r.d] : r \in Rays }

handToGridPosition(w, position) ==
    IF position.isNull THEN NullPos ELSE raycastToGrid(w, position)

----------------------------------------------------------------------------
(* GestureActions *)

ACTION_DEBOUNCE == 300
COLOR_CHANGE_DEBOUNCE == 500
UNDO_DEBOUNCE == 600
ORBIT_SENSITIVITY == 2

\* the time between two frames: the action cooldown exactly, or just more;
\* two of them make the undo cooldown exactly, or just more
Delays == {COLOR_CHANGE_DEBOUNCE - ACTION_DEBOUNCE, ACTION_DEBOUNCE, ACTION_DEBOUNCE + 1}

\* hand-movement deltas handed to processResults (null or {dx, dy}), in hundredths
HandMovements ==
    { [isNull |-> TRUE, dx |-> 0, dy |-> 0], [isNull |-> FALSE, dx |-> 3, dy |-> -1] }

\* no cooldown at all
canPerformAction_Always(lastTime, debounce) == TRUE

\* a cooldown that counts as elapsed at the instant it ends
canPerformAction_Inclusive(lastTime, debounce) == now - lastTime >= debounce

canPerformAction(lastTime, debounce) == now - lastTime > debounce

\* setMode: the events it emits
setModeEvents(mode) ==
    IF currentMode # mode THEN << <<"modeChange", mode>> >> ELSE <<>>

\* orbitCamera(dx, dy) as called by the frame, or not called; given: the
\* frame came with a hand movement
NoOrbit == [applied |-> FALSE, dx |-> 0, dy |-> 0, given |-> FALSE]

EmptyFrame ==
    [gesture |-> "new", position |-> NoAnchor, target |-> NullPos, acted |-> FALSE,
     events |-> <<>>,
     orbit |-> NoOrbit, pre |-> <<>>, armed |-> FALSE, armedPre |-> <<>>]

NoPend == [armed |-> FALSE, pre |-> <<>>]

TrailOff == << [g |-> "more", x |-> 0, y |-> 0, z |-> 0, colorIndex |-> 0] >>

TrailAfter(g, x, y, z) ==
    IF trail = TrailOff \/ Len(trail) >= MaxTrail THEN TrailOff
    ELSE Append(trail, [g |-> g, x |-> x, y |-> y, z |-> z,
                        colorIndex |-> currentColorIndex])

Frame(gesture, position, target, acted, events) ==
    [EmptyFrame EXCEPT !.gesture = gesture, !.position = position,
                       !.target = target, !.acted = acted,
                       !.events = << <<"gestureChange", gesture>> >> \o events,
                       !.pre = voxels]

\* one more step of a session followed for a number of steps
Budget ==
    /\ frames # 0
    /\ frames' = IF frames > 0 THEN frames - 1 ELSE frames

\* a step in which the dispatcher or the clock is driven directly: the
\* recognizer is not called
Counted == Budget /\ UNCHANGED recVars

\* a POINT that restarts the action cooldown, as PINCH and FIST do
Point_ResetsCooldown ==
    /\ Counted
    /\ \E a \in Anchors : \E g \in {handToGridPosition(voxels, a)} :
        /\ currentMode' = "PLACE MODE"
        /\ isOrbitActive' = FALSE
        /\ lastCursorPosition' = IF g.isNull THEN lastCursorPosition ELSE g
        /\ cursor' = setCursorPosition(cursor, g.isNull, g.x, g.y, g.z, currentColorIndex)
        /\ lastActionTime' = now
        /\ frame' = Frame("POINT", a, g, FALSE, setModeEvents("PLACE MODE"))
        /\ seen' = <<>>
        /\ UNCHANGED <<voxels, op, histVars, currentColorIndex,
                       lastColorChangeTime, lastUndoTime, now, pend, trail>>

\* POINT: move the cursor
handlePoint(position) ==
    \E g \in {handToGridPosition(voxels, position)} :
        /\ currentMode' = "PLACE MODE"
        /\ isOrbitActive' = FALSE
        /\ lastCursorPosition' = IF g.isNull THEN lastCursorPosition ELSE g
        /\ cursor' = setCursorPosition(cursor, g.isNull, g.x, g.y, g.z, currentColorIndex)
        /\ frame' = Frame("POINT", position, g, FALSE, setModeEvents("PLACE MODE"))
        /\ seen' = <<>>
        /\ UNCHANGED <<voxels, op, histVars, currentColorIndex, lastActionTime,
                       lastColorChangeTime, lastUndoTime, now, pend, trail>>

Point == Counted /\ \E a \in Anchors : handlePoint(a)

\* PINCH: place a voxel
handlePinch(position) ==
    \E g \in {handToGridPosition(voxels, position)} :
        /\ currentMode' = "PLACE MODE"
        /\ isOrbitActive' = FALSE
        /\ IF ~g.isNull /\ canPerformAction(lastActionTime, ACTION_DEBOUNCE)
           THEN LET r == addVoxel(voxels, <<>>, g.x, g.y, g.z, currentColorIndex)
                IN  /\ HCommit(saveState(history, currentIndex, maxHistory,
                                         getState(voxels)), "saveState")
                    /\ voxels' = r.voxels
                    /\ seen' = r.seen
                    /\ lastActionTime' = now
                    /\ lastCursorPosition' = g
                    /\ cursor' = setCursorPosition(cursor, FALSE, g.x, g.y, g.z,
                                                   currentColorIndex)
                    /\ frame' = Frame("PINCH", position, g, TRUE, setModeEvents("PLACE MODE"))
                    /\ pend' = IF VoxelSet(r.voxels) # VoxelSet(voxels)
                               THEN [armed |-> TRUE, pre |-> voxels] ELSE pend
                    /\ trail' = TrailAfter("PINCH", g.x, g.y, g.z)
           ELSE /\ frame' = Frame("PINCH", position, g, FALSE, setModeEvents("PLACE MODE"))
                /\ seen' = <<>>
                /\ UNCHANGED <<voxels, histVars, lastActionTime, lastCursorPosition,
                               cursor, pend, trail>>
        /\ UNCHANGED <<op, currentColorIndex, lastColorChangeTime, lastUndoTime, now>>

Pinch == Counted /\ \E a \in Anchors : handlePinch(a)

\* a FIST that acts on any target, struck voxel or not
handleFist_AnyTarget(position) ==
    \E g \in {handToGridPosition(voxels, position)} :
        /\ currentMode' = "DELETE MODE"
        /\ isOrbitActive' = FALSE
        /\ IF ~g.isNull /\ canPerformAction(lastActionTime, ACTION_DEBOUNCE)
           THEN LET r == removeVoxel(voxels, <<>>, g.hx, g.hy, g.hz)
                IN  /\ HCommit(saveState(history, currentIndex, maxHistory,
                                         getState(voxels)), "saveState")
                    /\ voxels' = r.voxels
                    /\ seen' = r.seen
                    /\ lastActionTime' = now
                    /\ frame' = Frame("FIST", position, g, TRUE, setModeEvents("DELETE MODE"))
                    /\ pend' = IF VoxelSet(r.voxels) # VoxelSet(voxels)
                               THEN [armed |-> TRUE, pre |-> voxels] ELSE pend
                    /\ trail' = TrailAfter("FIST", g.hx, g.hy, g.hz)
           ELSE /\ frame' = Frame("FIST", position, g, FALSE, setModeEvents("DELETE MODE"))
                /\ seen' = <<>>
                /\ UNCHANGED <<voxels, histVars, lastActionTime, pend, trail>>
        /\ cursor' = IF ~g.isNull /\ g.hasHit
                     THEN setCursorPosition(cursor, FALSE, g.hx, g.hy, g.hz,
                                            currentColorIndex)
                     ELSE cursor
        /\ UNCHANGED <<op, currentColorIndex, lastColorChangeTime, lastUndoTime,
                       lastCursorPosition, now>>

\* FIST: delete the struck voxel
handleFist(position) ==
    \E g \in {handToGridPosition(voxels, position)} :
        /\ currentMode' = "DELETE MODE"
        /\ isOrbitActive' = FALSE
        /\ IF ~g.isNull /\ g.hasHit /\ canPerformAction(lastActionTime, ACTION_DEBOUNCE)
           THEN LET r == removeVoxel(voxels, <<>>, g.hx, g.hy, g.hz)
                IN  /\ HCommit(saveState(history, currentIndex, maxHistory,
                                         getState(voxels)), "saveState")
                    /\ voxels' = r.voxels
                    /\ seen' = r.seen
                    /\ lastActionTime' = now
                    /\ frame' = Frame("FIST", position, g, TRUE, setModeEvents("DELETE MODE"))
                    /\ pend' = IF VoxelSet(r.voxels) # VoxelSet(voxels)
                               THEN [armed |-> TRUE, pre |-> voxels] ELSE pend
                    /\ trail' = TrailAfter("FIST", g.hx, g.hy, g.hz)
           ELSE /\ frame' = Frame("FIST", position, g, FALSE, setModeEvents("DELETE MODE"))
                /\ seen' = <<>>
                /\ UNCHANGED <<voxels, histVars, lastActionTime, pend, trail>>
        /\ cursor' = IF ~g.isNull /\ g.hasHit
                     THEN setCursorPosition(cursor, FALSE, g.hx, g.hy, g.hz,
                                            currentColorIndex)
                     ELSE cursor
        /\ UNCHANGED <<op, currentColorIndex, lastColorChangeTime, lastUndoTime,
                       lastCursorPosition, now>>

Fist == Counted /\ \E a \in Anchors : handleFist(a)

\* a PALM that orbits on every frame that has a hand movement
handlePalm_AlwaysOrbits(handMovement) ==
    /\ currentMode' = "ORBIT MODE"
    /\ cursor' = setCursorPosition(cursor, TRUE, 0, 0, 0, 0)
    /\ frame' = [Frame("PALM", NoAnchor, NullPos, FALSE, setModeEvents("ORBIT MODE"))
                    EXCEPT !.orbit =
                        IF ~handMovement.isNull
                        THEN [applied |-> TRUE,
                              dx |-> (0 - handMovement.dx) * ORBIT_SENSITIVITY,
                              dy |-> handMovement.dy * ORBIT_SENSITIVITY,
                              given |-> TRUE]
                        ELSE [NoOrbit EXCEPT !.given = ~handMovement.isNull]]
    /\ isOrbitActive' = TRUE
    /\ seen' = <<>>
    /\ UNCHANGED <<voxels, op, histVars, currentColorIndex, lastActionTime,
                   lastColorChangeTime, lastUndoTime, lastCursorPosition, now,
                   pend, trail>>

\* PALM: orbit the camera
handlePalm(handMovement) ==
    /\ currentMode' = "ORBIT MODE"
    /\ cursor' = setCursorPosition(cursor, TRUE, 0, 0, 0, 0)
    /\ frame' = [Frame("PALM", NoAnchor, NullPos, FALSE, setModeEvents("ORBIT MODE"))
                    EXCEPT !.orbit =
                        IF ~handMovement.isNull /\ isOrbitActive
                        THEN [applied |-> TRUE,
                              dx |-> (0 - handMovement.dx) * ORBIT_SENSITIVITY,
                              dy |-> handMovement.dy * ORBIT_SENSITIVITY,
                              given |-> TRUE]
                        ELSE [NoOrbit EXCEPT !.given = ~handMovement.isNull]]
    /\ isOrbitActive' = TRUE
    /\ seen' = <<>>
    /\ UNCHANGED <<voxels, op, histVars, currentColorIndex, lastActionTime,
                   lastColorChangeTime, lastUndoTime, lastCursorPosition, now,
                   pend, trail>>

Palm == Counted /\ \E m \in HandMovements : handlePalm(m)

\* a PEACE that also waits for the action cooldown
Peace_GlobalCooldown ==
    /\ Counted
    /\ currentMode' = "COLOR MODE"
    /\ IF /\ canPerformAction(lastColorChangeTime, COLOR_CHANGE_DEBOUNCE)
          /\ canPerformAction(lastActionTime, ACTION_DEBOUNCE)
       THEN LET c == (currentColorIndex + 1) % NumColors
            IN  /\ currentColorIndex' = c
                /\ lastColorChangeTime' = now
                /\ frame' = Frame("PEACE", NoAnchor, NullPos, TRUE,
                                  setModeEvents("COLOR MODE") \o << <<"colorChange", c>> >>)
                /\ cursor' = IF ~lastCursorPosition.isNull
                             THEN setCursorPosition(cursor, FALSE, lastCursorPosition.x,
                                      lastCursorPosition.y, lastCursorPosition.z, c)
                             ELSE cursor
       ELSE /\ frame' = Frame("PEACE", NoAnchor, NullPos, FALSE, setModeEvents("COLOR MODE"))
            /\ UNCHANGED <<currentColorIndex, lastColorChangeTime, cursor>>
    /\ seen' = <<>>
    /\ UNCHANGED <<voxels, op, histVars, lastActionTime, lastUndoTime,
                   lastCursorPosition, isOrbitActive, now, pend, trail>>

\* a PEACE that ends the orbit
handlePeace_EndsOrbit ==
    /\ currentMode' = "COLOR MODE"
    /\ isOrbitActive' = FALSE
    /\ IF canPerformAction(lastColorChangeTime, COLOR_CHANGE_DEBOUNCE)
       THEN LET c == (currentColorIndex + 1) % NumColors
            IN  /\ currentColorIndex' = c
                /\ lastColorChangeTime' = now
                /\ frame' = Frame("PEACE", NoAnchor, NullPos, TRUE,
                                  setModeEvents("COLOR MODE") \o << <<"colorChange", c>> >>)
                /\ cursor' = IF ~lastCursorPosition.isNull
                             THEN setCursorPosition(cursor, FALSE, lastCursorPosition.x,
                                      lastCursorPosition.y, lastCursorPosition.z, c)
                             ELSE cursor
       ELSE /\ frame' = Frame("PEACE", NoAnchor, NullPos, FALSE, setModeEvents("COLOR MODE"))
            /\ UNCHANGED <<currentColorIndex, lastColorChangeTime, cursor>>
    /\ seen' = <<>>
    /\ UNCHANGED <<voxels, op, histVars, lastActionTime, lastUndoTime,
                   lastCursorPosition, now, pend, trail>>

\* a PEACE that counts the color index up without wrapping
handlePeace_NoWrap ==
    /\ currentMode' = "COLOR MODE"
    /\ IF canPerformAction(lastColorChangeTime, COLOR_CHANGE_DEBOUNCE)
       THEN LET c == currentColorIndex + 1
            IN  /\ currentColorIndex' = c
                /\ lastColorChangeTime' = now
                /\ frame' = Frame("PEACE", NoAnchor, NullPos, TRUE,
                                  setModeEvents("COLOR MODE") \o << <<"colorChange", c>> >>)
                /\ cursor' = IF ~lastCursorPosition.isNull
                             THEN setCursorPosition(cursor, FALSE, lastCursorPosition.x,
                                      lastCursorPosition.y, lastCursorPosition.z, c)
                             ELSE cursor
       ELSE /\ frame' = Frame("PEACE", NoAnchor, NullPos, FALSE, setModeEvents("COLOR MODE"))
            /\ UNCHANGED <<currentColorIndex, lastColorChangeTime, cursor>>
    /\ seen' = <<>>
    /\ UNCHANGED <<voxels, op, histVars, lastActionTime, lastUndoTime,
                   lastCursorPosition, isOrbitActive, now, pend, trail>>

\* PEACE: cycle the color
handlePeace ==
    /\ currentMode' = "COLOR MODE"
    /\ IF canPerformAction(lastColorChangeTime, COLOR_CHANGE_DEBOUNCE)
       THEN LET c == (currentColorIndex + 1) % NumColors
            IN  /\ currentColorIndex' = c
                /\ lastColorChangeTime' = now
                /\ frame' = Frame("PEACE", NoAnchor, NullPos, TRUE,
                                  setModeEvents("COLOR MODE") \o << <<"colorChange", c>> >>)
                /\ cursor' = IF ~lastCursorPosition.isNull
                             THEN setCursorPosition(cursor, FALSE, lastCursorPosition.x,
                                      lastCursorPosition.y, lastCursorPosition.z, c)
                             ELSE cursor
       ELSE /\ frame' = Frame("PEACE", NoAnchor, NullPos, FALSE, setModeEvents("COLOR MODE"))
            /\ UNCHANGED <<currentColorIndex, lastColorChangeTime, cursor>>
    /\ seen' = <<>>
    /\ UNCHANGED <<voxels, op, histVars, lastActionTime, lastUndoTime,
                   lastCursorPosition, isOrbitActive, now, pend, trail>>

Peace == Counted /\ handlePeace

\* the restore shared by undo and redo: setState when an entry came back
\* (a serialized world is a non-empty string, hence truthy)
Restore(r, name, gesture) ==
    /\ HCommit(r, name)
    /\ IF ~r.ret.isNull
       THEN LET w == setState(voxels, <<>>, r.ret.state)
            IN  voxels' = w.voxels /\ seen' = w.seen
       ELSE voxels' = voxels /\ seen' = <<>>
    /\ lastUndoTime' = now
    /\ trail' = TrailAfter(gesture, 0, 0, 0)

\* SWIPE_LEFT: undo
handleSwipeLeft ==
    /\ IF canPerformAction(lastUndoTime, UNDO_DEBOUNCE)
       THEN /\ Restore(undo(history, currentIndex), "undo", "SWIPE_LEFT")
            /\ frame' = [Frame("SWIPE_LEFT", NoAnchor, NullPos, TRUE, <<>>)
                            EXCEPT !.armed = pend.armed, !.armedPre = pend.pre]
            /\ pend' = NoPend
       ELSE /\ frame' = Frame("SWIPE_LEFT", NoAnchor, NullPos, FALSE, <<>>)
            /\ seen' = <<>>
            /\ UNCHANGED <<voxels, histVars, lastUndoTime, pend, trail>>
    /\ UNCHANGED <<op, currentMode, currentColorIndex, lastActionTime,
                   lastColorChangeTime, lastCursorPosition, isOrbitActive, cursor, now>>

SwipeLeft == Counted /\ handleSwipeLeft

\* SWIPE_RIGHT: redo
handleSwipeRight ==
    /\ IF canPerformAction(lastUndoTime, UNDO_DEBOUNCE)
       THEN /\ Restore(redo(history, currentIndex), "redo", "SWIPE_RIGHT")
            /\ frame' = Frame("SWIPE_RIGHT", NoAnchor, NullPos, TRUE, <<>>)
       ELSE /\ frame' = Frame("SWIPE_RIGHT", NoAnchor, NullPos, FALSE, <<>>)
            /\ seen' = <<>>
            /\ UNCHANGED <<voxels, histVars, lastUndoTime, trail>>
    /\ UNCHANGED <<op, currentMode, currentColorIndex, lastActionTime,
                   lastColorChangeTime, lastCursorPosition, isOrbitActive, cursor, now,
                   pend>>

SwipeRight == Counted /\ handleSwipeRight

\* a NONE that falls back to the PLACE mode
None_ResetsMode ==
    /\ Counted
    /\ isOrbitActive' = FALSE
    /\ currentMode' = "PLACE MODE"
    /\ frame' = Frame("NONE", NoAnchor, NullPos, FALSE, setModeEvents("PLACE MODE"))
    /\ seen' = <<>>
    /\ UNCHANGED <<voxels, op, histVars, currentColorIndex,
                   lastActionTime, lastColorChangeTime, lastUndoTime,
                   lastCursorPosition, cursor, now, pend, trail>>

\* NONE
handleNone ==
    /\ isOrbitActive' = FALSE
    /\ frame' = Frame("NONE", NoAnchor, NullPos, FALSE, <<>>)
    /\ seen' = <<>>
    /\ UNCHANGED <<voxels, op, histVars, currentMode, currentColorIndex,
                   lastActionTime, lastColorChangeTime, lastUndoTime,
                   lastCursorPosition, cursor, now, pend, trail>>

None == Counted /\ handleNone

\* setColor(colorIndex), called by the palette
SetColor ==
    /\ Counted
    /\ \E c \in ColorInputs :
        /\ currentColorIndex' = c
        /\ cursor' = IF ~lastCursorPosition.isNull
                     THEN setCursorPosition(cursor, FALSE, lastCursorPosition.x,
                              lastCursorPosition.y, lastCursorPosition.z, c)
                     ELSE cursor
        /\ frame' = [EmptyFrame EXCEPT !.gesture = "setColor",
                                       !.events = << <<"colorChange", c>> >>,
                                       !.pre = voxels]
        /\ seen' = <<>>
        /\ UNCHANGED <<voxels, op, histVars, currentMode, lastActionTime,
                       lastColorChangeTime, lastUndoTime, lastCursorPosition,
                       isOrbitActive, now, pend, trail>>

\* time passes between two frames
Tick ==
    \E d \in Delays :
        /\ Counted
        /\ now' = now + d
        /\ UNCHANGED <<worldVars, histVars, currentMode, currentColorIndex,
                       lastActionTime, lastColorChangeTime, lastUndoTime,
                       lastCursorPosition, isOrbitActive, cursor, frame, pend, trail>>

\* no hand is shown until every cooldown has elapsed
Wait ==
    /\ Counted
    /\ now + UNDO_DEBOUNCE + 1 <= StartTime + MaxElapsed
    /\ now' = now + UNDO_DEBOUNCE + 1
    /\ UNCHANGED <<worldVars, histVars, currentMode, currentColorIndex,
                   lastActionTime, lastColorChangeTime, lastUndoTime,
                   lastCursorPosition, isOrbitActive, cursor, frame, pend, trail>>

InitDispatcher ==
    /\ currentColorIndex = 0
    /\ currentMode = "PLACE MODE"
    /\ lastActionTime = 0
    /\ lastColorChangeTime = 0
    /\ lastUndoTime = 0
    /\ lastCursorPosition = NullPos
    /\ isOrbitActive = FALSE
    /\ cursor = HiddenCursor
    /\ now = StartTime
    /\ frame = EmptyFrame
    /\ pend = NoPend
    /\ trail = <<>>

----------------------------------------------------------------------------
(* GestureRecognizer.  Landmark coordinates are counted in thousandths of the
   normalized image; distances are compared through their squares. *)

PINCH_THRESHOLD == 70
SWIPE_VELOCITY == 150
SWIPE_MIN_DISTANCE == 200
SwipeWindow == 500          \* dt > 0.5, in milliseconds

\* HAND_LANDMARKS: the indices of the landmarks the recognizer reads
HAND_LANDMARKS ==
    [WRIST |-> 0, THUMB_MCP |-> 2, THUMB_TIP |-> 4,
     INDEX_MCP |-> 5, INDEX_PIP |-> 6, INDEX_TIP |-> 8,
     MIDDLE_MCP |-> 9, MIDDLE_PIP |-> 10, MIDDLE_TIP |-> 12,
     RING_MCP |-> 13, RING_PIP |-> 14, RING_TIP |-> 16,
     PINKY_MCP |-> 17, PINKY_PIP |-> 18, PINKY_TIP |-> 20]

\* landmarks[k] of a JavaScript array held as a sequence; reading past the end
\* gives undefined
Lm(landmarks, k) == landmarks[k + 1]
Defined(landmarks, k) == k + 1 <= Len(landmarks)

\* a position or time that may be null
NoPoint == [isNull |-> TRUE, x |-> 0, y |-> 0]
Point2(x, y) == [isNull |-> FALSE, x |-> x, y |-> y]
NoTime == [isNull |-> TRUE, t |-> 0]

\* distance(landmark1, landmark2), squared
distanceSq(p, q) ==
    (p[1] - q[1]) * (p[1] - q[1]) + (p[2] - q[2]) * (p[2] - q[2])
      + (p[3] - q[3]) * (p[3] - q[3])

\* tipToMCP > pipToMCP * 1.2
isFingerExtended(landmarks, fingerTip, fingerPIP, fingerMCP) ==
    25 * distanceSq(Lm(landmarks, fingerTip), Lm(landmarks, fingerMCP))
        > 36 * distanceSq(Lm(landmarks, fingerPIP), Lm(landmarks, fingerMCP))

isThumbExtended(landmarks) ==
    distanceSq(Lm(landmarks, HAND_LANDMARKS.THUMB_TIP), Lm(landmarks, HAND_LANDMARKS.INDEX_MCP))
        > distanceSq(Lm(landmarks, HAND_LANDMARKS.THUMB_MCP), Lm(landmarks, HAND_LANDMARKS.INDEX_MCP))

getExtendedFingers(landmarks) ==
    [thumb |-> isThumbExtended(landmarks),
     index |-> isFingerExtended(landmarks, HAND_LANDMARKS.INDEX_TIP, HAND_LANDMARKS.INDEX_PIP, HAND_LANDMARKS.INDEX_MCP),
     middle |-> isFingerExtended(landmarks, HAND_LANDMARKS.MIDDLE_TIP, HAND_LANDMARKS.MIDDLE_PIP, HAND_LANDMARKS.MIDDLE_MCP),
     ring |-> isFingerExtended(landmarks, HAND_LANDMARKS.RING_TIP, HAND_LANDMARKS.RING_PIP, HAND_LANDMARKS.RING_MCP),
     pinky |-> isFingerExtended(landmarks, HAND_LANDMARKS.PINKY_TIP, HAND_LANDMARKS.PINKY_PIP, HAND_LANDMARKS.PINKY_MCP)]

\* Object.values(fingers).filter(Boolean).length
extendedCount(fingers) == Cardinality({ f \in DOMAIN fingers : fingers[f] })

isPinching(landmarks) ==
    distanceSq(Lm(landmarks, HAND_LANDMARKS.THUMB_TIP), Lm(landmarks, HAND_LANDMARKS.INDEX_TIP))
        < PINCH_THRESHOLD * PINCH_THRESHOLD

\* a fist test that accepts no extended finger at all
isFist_NoFinger(landmarks) == extendedCount(getExtendedFingers(landmarks)) < 1

isFist(landmarks) == extendedCount(getExtendedFingers(landmarks)) <= 1

isOpenPalm(landmarks) == extendedCount(getExtendedFingers(landmarks)) >= 4

isPeaceSign(landmarks) ==
    LET fingers == getExtendedFingers(landmarks)
    IN  fingers.index /\ fingers.middle /\ ~fingers.ring /\ ~fingers.pinky

isPointing(landmarks) ==
    LET fingers == getExtendedFingers(landmarks)
    IN  fingers.index /\ ~fingers.middle /\ ~fingers.ring /\ ~fingers.pinky

\* a detectSwipe whose window never times out
detectSwipe_NoTimeout(landmarks, start, startTime, currentTime) ==
    LET wrist == Lm(landmarks, HAND_LANDMARKS.WRIST)
        dx == wrist[1] - start.x
        dy == wrist[2] - start.y
        dSq == dx * dx + dy * dy
    IN  IF start.isNull
        THEN [swipe |-> "null", start |-> Point2(wrist[1], wrist[2]),
              startTime |-> [isNull |-> FALSE, t |-> currentTime]]
        ELSE IF dSq > SWIPE_MIN_DISTANCE * SWIPE_MIN_DISTANCE
        THEN [swipe |-> IF Abs(dx) > Abs(dy)
                        THEN (IF dx > 0 THEN "SWIPE_LEFT" ELSE "SWIPE_RIGHT")
                        ELSE "null",
              start |-> NoPoint, startTime |-> NoTime]
        ELSE [swipe |-> "null", start |-> start, startTime |-> startTime]

\* a detectSwipe that keeps the window open after it has emitted a swipe
detectSwipe_KeepsWindow(landmarks, start, startTime, currentTime) ==
    LET wrist == Lm(landmarks, HAND_LANDMARKS.WRIST)
        latched == [swipe |-> "null", start |-> Point2(wrist[1], wrist[2]),
                    startTime |-> [isNull |-> FALSE, t |-> currentTime]]
        dx == wrist[1] - start.x
        dy == wrist[2] - start.y
        dSq == dx * dx + dy * dy
        dt == currentTime - startTime.t
    IN  IF start.isNull THEN latched
        ELSE IF dt > SwipeWindow THEN latched
        ELSE IF /\ dSq > SWIPE_MIN_DISTANCE * SWIPE_MIN_DISTANCE
                /\ dSq * 20 * 20 > (SWIPE_VELOCITY \div 50) * (SWIPE_VELOCITY \div 50) * dt * dt
        THEN [swipe |-> IF Abs(dx) > Abs(dy)
                        THEN (IF dx > 0 THEN "SWIPE_LEFT" ELSE "SWIPE_RIGHT")
                        ELSE "null",
              start |-> IF Abs(dx) > Abs(dy) THEN start ELSE NoPoint,
              startTime |-> IF Abs(dx) > Abs(dy) THEN startTime ELSE NoTime]
        ELSE [swipe |-> "null", start |-> start, startTime |-> startTime]

\* detectSwipe(landmarks) at time currentTime with the window (start, startTime):
\* the swipe returned ("null" for none) and the window it leaves
detectSwipe(landmarks, start, startTime, currentTime) ==
    LET wrist == Lm(landmarks, HAND_LANDMARKS.WRIST)
        latched == [swipe |-> "null", start |-> Point2(wrist[1], wrist[2]),
                    startTime |-> [isNull |-> FALSE, t |-> currentTime]]
        dx == wrist[1] - start.x
        dy == wrist[2] - start.y
        dSq == dx * dx + dy * dy
        dt == currentTime - startTime.t
    IN  IF start.isNull THEN latched
        ELSE IF dt > SwipeWindow THEN latched
        ELSE IF /\ dSq > SWIPE_MIN_DISTANCE * SWIPE_MIN_DISTANCE
                \* distance / dt > SWIPE_VELOCITY, dt in seconds (x / 0 is
                \* Infinity): distance * 1000 > SWIPE_VELOCITY * dt with dt in
                \* milliseconds, both sides divided by 50 and squared
                /\ dSq * 20 * 20 > (SWIPE_VELOCITY \div 50) * (SWIPE_VELOCITY \div 50) * dt * dt
        THEN [swipe |-> IF Abs(dx) > Abs(dy)
                        THEN (IF dx > 0 THEN "SWIPE_LEFT" ELSE "SWIPE_RIGHT")
                        ELSE "null",
              start |-> NoPoint, startTime |-> NoTime]
        ELSE [swipe |-> "null", start |-> start, startTime |-> startTime]

\* what recognize returns: confidence in hundredths, position the index of
\* the landmark handed on (-1: none); threw: a TypeError left the call
Recognized(gesture, confidence, position, prev, sw) ==
    [gesture |-> gesture, confidence |-> confidence, position |-> position,
     threw |-> FALSE, previousHandPosition |-> prev,
     swipeStartPosition |-> sw.start, swipeStartTime |-> sw.startTime]

Thrown(prev, sw) ==
    [Recognized("", 0, -1, prev, sw) EXCEPT !.threw = TRUE]

\* a recognize that tests the fist before the pinch
recognize_FistFirst(input, prev, start, startTime, currentTime) ==
    IF input.isNull \/ Len(input.pts) = 0
    THEN Recognized("NONE", 0, -1, NoPoint, [start |-> NoPoint, startTime |-> startTime])
    ELSE LET landmarks == input.pts
             sw == detectSwipe(landmarks, start, startTime, currentTime)
         IN  IF sw.swipe # "null" THEN Recognized(sw.swipe, 90, -1, prev, sw)
             ELSE IF ~Defined(landmarks, HAND_LANDMARKS.PINKY_TIP) THEN Thrown(prev, sw)
             ELSE IF isFist(landmarks) THEN Recognized("FIST", 90, HAND_LANDMARKS.WRIST, prev, sw)
             ELSE IF isPinching(landmarks) THEN Recognized("PINCH", 95, HAND_LANDMARKS.INDEX_TIP, prev, sw)
             ELSE IF isPeaceSign(landmarks) THEN Recognized("PEACE", 85, HAND_LANDMARKS.INDEX_TIP, prev, sw)
             ELSE IF isOpenPalm(landmarks) THEN Recognized("PALM", 90, HAND_LANDMARKS.WRIST, prev, sw)
             ELSE IF isPointing(landmarks) THEN Recognized("POINT", 85, HAND_LANDMARKS.INDEX_TIP, prev, sw)
             ELSE Recognized("NONE", 0, HAND_LANDMARKS.WRIST, prev, sw)

\* recognize(landmarks): input.isNull is a missing (null or undefined) argument
recognize(input, prev, start, startTime, currentTime) ==
    IF input.isNull \/ Len(input.pts) = 0
    THEN Recognized("NONE", 0, -1, NoPoint, [start |-> NoPoint, startTime |-> startTime])
    ELSE LET landmarks == input.pts
             sw == detectSwipe(landmarks, start, startTime, currentTime)
         IN  IF sw.swipe # "null" THEN Recognized(sw.swipe, 90, -1, prev, sw)
             ELSE IF ~Defined(landmarks, HAND_LANDMARKS.THUMB_TIP) \/ ~Defined(landmarks, HAND_LANDMARKS.INDEX_TIP)
             THEN Thrown(prev, sw)
             ELSE IF isPinching(landmarks) THEN Recognized("PINCH", 95, HAND_LANDMARKS.INDEX_TIP, prev, sw)
             ELSE IF ~Defined(landmarks, HAND_LANDMARKS.PINKY_TIP) THEN Thrown(prev, sw)
             ELSE IF isFist(landmarks) THEN Recognized("FIST", 90, HAND_LANDMARKS.WRIST, prev, sw)
             ELSE IF isPeaceSign(landmarks) THEN Recognized("PEACE", 85, HAND_LANDMARKS.INDEX_TIP, prev, sw)
             ELSE IF isOpenPalm(landmarks) THEN Recognized("PALM", 90, HAND_LANDMARKS.WRIST, prev, sw)
             ELSE IF isPointing(landmarks) THEN Recognized("POINT", 85, HAND_LANDMARKS.INDEX_TIP, prev, sw)
             ELSE Recognized("NONE", 0, HAND_LANDMARKS.WRIST, prev, sw)

\* getHandCenter(landmarks), x and y
getHandCenter(landmarks) ==
    LET palm == Lm(landmarks, HAND_LANDMARKS.WRIST)
        indexMCP == Lm(landmarks, HAND_LANDMARKS.INDEX_MCP)
        pinkyMCP == Lm(landmarks, HAND_LANDMARKS.PINKY_MCP)
    IN  Point2((palm[1] + indexMCP[1] + pinkyMCP[1]) \div 3,
               (palm[2] + indexMCP[2] + pinkyMCP[2]) \div 3)

NoMovement == [isNull |-> TRUE, dx |-> 0, dy |-> 0]

\* getHandMovement(landmarks): the delta returned and the position kept
getHandMovement(input, prev) ==
    IF input.isNull
    THEN [ret |-> NoMovement, threw |-> FALSE, previousHandPosition |-> NoPoint]
    ELSE IF ~Defined(input.pts, HAND_LANDMARKS.PINKY_MCP)
    THEN [ret |-> NoMovement, threw |-> TRUE, previousHandPosition |-> prev]
    ELSE LET currentPosition == getHandCenter(input.pts)
         IN  IF prev.isNull
             THEN [ret |-> [isNull |-> FALSE, dx |-> 0, dy |-> 0], threw |-> FALSE,
                   previousHandPosition |-> currentPosition]
             ELSE [ret |-> [isNull |-> FALSE, dx |-> currentPosition.x - prev.x,
                                              dy |-> currentPosition.y - prev.y],
                   threw |-> FALSE, previousHandPosition |-> currentPosition]

(* Hands given to the recognizer *)

Shift(w, d) == <<w[1] + d[1], w[2] + d[2], 0>>

\* MCP, PIP, DIP and TIP of a finger that points up the image; the tip of a
\* folded finger is exactly 1.2 times as far from the MCP as the PIP is
Finger(mcp, extended) ==
    << mcp, Shift(mcp, <<0, -30>>), Shift(mcp, <<0, -40>>),
       Shift(mcp, IF extended THEN <<0, -60>> ELSE <<0, -36>>) >>

\* where the thumb tip is, from the index MCP: extended and 50 from the tip of
\* an extended index finger; extended and exactly 70 from it; folded and
\* within 70 of the index tip; folded and away from it
ThumbTips == { <<-50, -60>>, <<-70, -60>>, <<-30, -30>>, <<0, 40>> }

\* the 21 landmarks of a hand with its wrist at w
Hand(w, thumbTip, index, middle, ring, pinky) ==
    LET b == <<w[1], w[2], 0>>
        indexMCP == Shift(b, <<-40, -100>>)
    IN  << b, Shift(b, <<-60, -20>>), Shift(b, <<-80, -50>>), Shift(b, <<-90, -70>>),
           Shift(indexMCP, thumbTip) >>
        \o Finger(indexMCP, index)
        \o Finger(Shift(b, <<0, -100>>), middle)
        \o Finger(Shift(b, <<40, -100>>), ring)
        \o Finger(Shift(b, <<70, -110>>), pinky)

\* A hand is described by its wrist, thumb and fingers and by the number of
\* landmarks the tracker delivered for it; isNull: no array at all.
HandOf(w, thumbTip, index, middle, ring, pinky, count) ==
    [isNull |-> FALSE, count |-> count, w |-> w, thumbTip |-> thumbTip, index |-> index,
     middle |-> middle, ring |-> ring, pinky |-> pinky]

NoLandmarks == [HandOf(<<0, 0>>, <<0, 0>>, FALSE, FALSE, FALSE, FALSE, 0) EXCEPT !.isNull = TRUE]

\* the argument a call receives for hand h
Landmarks(h) ==
    [isNull |-> h.isNull,
     pts |-> SubSeq(Hand(h.w, h.thumbTip, h.index, h.middle, h.ring, h.pinky), 1, h.count)]

HomeWrist == <<500, 500>>

\* wrists a swipe is measured between: 200 and 210 to the side of the home
\* position, 210 below it
Wrists == { HomeWrist, <<700, 500>>, <<710, 500>>, <<500, 710>> }

\* every combination of thumb and fingers at the home position
Shapes ==
    { HandOf(HomeWrist, t, i, m, r, p, 21) :
        t \in ThumbTips, i \in BOOLEAN, m \in BOOLEAN, r \in BOOLEAN, p \in BOOLEAN }

PinchedFist(w, count) == HandOf(w, <<-30, -30>>, FALSE, FALSE, FALSE, FALSE, count)
Pointing(w, count) == HandOf(w, <<0, 40>>, TRUE, FALSE, FALSE, FALSE, count)
OpenPalm(w) == HandOf(w, <<-70, -60>>, TRUE, TRUE, TRUE, TRUE, 21)

\* arrays of fewer than 21 landmarks
ShortHands ==
    { PinchedFist(HomeWrist, 0), PinchedFist(HomeWrist, 1), PinchedFist(HomeWrist, 9),
      Pointing(HomeWrist, 9), Pointing(HomeWrist, 20) }

RecInputs ==
    {NoLandmarks} \cup Shapes \cup ShortHands
    \cup { PinchedFist(w, 21) : w \in Wrists }
    \cup { Pointing(w, 21) : w \in Wrists }

MoveInputs ==
    { NoLandmarks, PinchedFist(HomeWrist, 0), OpenPalm(HomeWrist), OpenPalm(<<710, 500>>) }

\* the time between two calls of the recognizer
RecDelays == { SwipeWindow \div 2, SwipeWindow, SwipeWindow + 1 }

MaxGap == 510       \* the recognizer is followed for this many milliseconds

EmptyRec ==
    [name |-> "new", input |-> NoLandmarks, gesture |-> "", confidence |-> 0,
     position |-> -1, threw |-> FALSE, movement |-> NoMovement,
     prePrev |-> NoPoint, preStart |-> NoPoint, preStartTime |-> NoTime, at |-> 0,
     predicted |-> "", afterGap |-> FALSE, afterSwipe |-> FALSE]

\* gestureRecognizer.recognize(landmarks)
Recognize ==
    \E h \in RecInputs :
        \E r \in {recognize(Landmarks(h), previousHandPosition, swipeStartPosition,
                            swipeStartTime, now)} :
            /\ previousHandPosition' = r.previousHandPosition
            /\ swipeStartPosition' = r.swipeStartPosition
            /\ swipeStartTime' = r.swipeStartTime
            /\ rec' = [EmptyRec EXCEPT !.name = "recognize", !.input = h,
                          !.gesture = r.gesture, !.confidence = r.confidence,
                          !.position = r.position, !.threw = r.threw,
                          !.prePrev = previousHandPosition,
                          !.preStart = swipeStartPosition,
                          !.preStartTime = swipeStartTime, !.at = now,
                          !.afterSwipe = (rec.name = "recognize"
                                           /\ rec.gesture \in {"SWIPE_LEFT", "SWIPE_RIGHT"})]
            /\ UNCHANGED <<worldVars, histVars, dispVars>>

\* gestureRecognizer.getHandMovement(landmarks)
GetHandMovement ==
    \E h \in MoveInputs :
        \E r \in {getHandMovement(Landmarks(h), previousHandPosition)} :
            /\ previousHandPosition' = r.previousHandPosition
            /\ rec' = [EmptyRec EXCEPT !.name = "getHandMovement", !.input = h,
                          !.threw = r.threw, !.movement = r.ret,
                          !.prePrev = previousHandPosition,
                          !.preStart = swipeStartPosition,
                          !.preStartTime = swipeStartTime, !.at = now]
            /\ UNCHANGED <<worldVars, histVars, dispVars, swipeStartPosition,
                           swipeStartTime>>

\* time passes between two calls of the recognizer
Elapse ==
    \E d \in RecDelays :
        /\ now + d <= StartTime + MaxGap
        /\ now' = now + d
        /\ UNCHANGED <<worldVars, histVars, currentMode, currentColorIndex,
                       lastActionTime, lastColorChangeTime, lastUndoTime,
                       lastCursorPosition, isOrbitActive, cursor, frame, pend,
                       trail, frames, recVars>>

InitRecognizer ==
    /\ previousHandPosition = NoPoint
    /\ swipeStartPosition = NoPoint
    /\ swipeStartTime = NoTime
    /\ rec = EmptyRec

----------------------------------------------------------------------------
(* The frame pipeline: App.processHandResults *)

\* the rule-based recognizer as the source of the gestures
useMLClassifier_Off == FALSE

\* App.useMLClassifier; GestureClassifier.isTrained is true once train() has
\* returned, and hand tracking is started only after that
useMLClassifier == TRUE
isTrained == TRUE

classNames == <<"none", "point", "pinch", "fist", "palm", "peace">>

gestureMap(name) ==
    CASE name = "none" -> "NONE"
      [] name = "point" -> "POINT"
      [] name = "pinch" -> "PINCH"
      [] name = "fist" -> "FIST"
      [] name = "palm" -> "PALM"
      [] name = "peace" -> "PEACE"

confidenceThreshold == 60       \* 0.6, in hundredths

\* what GestureClassifier.predict may return for a hand: the network is not
\* modelled, every class may come with a confidence just below, at and above
\* the threshold
Predictions ==
    { [gesture |-> classNames[i], confidence |-> c] :
        i \in 1..Len(classNames), c \in {confidenceThreshold - 1, confidenceThreshold, 95} }

\* a convertMLResultToGesture that hands every prediction on
convertMLResultToGesture_NoGate(mlResult) ==
    [gesture |-> gestureMap(mlResult.gesture),
     confidence |-> mlResult.confidence,
     position |-> IF mlResult.gesture \in {"point", "pinch", "peace"}
                  THEN HAND_LANDMARKS.INDEX_TIP ELSE HAND_LANDMARKS.WRIST]

\* convertMLResultToGesture(mlResult, landmarks): position is the index of
\* the landmark handed on
convertMLResultToGesture(mlResult) ==
    [gesture |-> IF mlResult.confidence >= confidenceThreshold
                 THEN gestureMap(mlResult.gesture) ELSE "NONE",
     confidence |-> mlResult.confidence,
     position |-> IF mlResult.gesture \in {"point", "pinch", "peace"}
                  THEN HAND_LANDMARKS.INDEX_TIP ELSE HAND_LANDMARKS.WRIST]

\* the hands of the frames: one at the home position, one 0.21 beside it
FrameHands == { OpenPalm(HomeWrist), OpenPalm(<<710, 500>>) }

\* the rays the camera may cast through the landmark handed to a spatial
\* gesture; the other gestures do not use the position
FrameAnchors(gesture) ==
    IF gesture \in {"POINT", "PINCH", "FIST"} THEN Anchors \ {NoAnchor} ELSE {NoAnchor}

\* the switch of processResults
processResults(gesture, position, handMovement) ==
    CASE gesture = "POINT" -> handlePoint(position)
      [] gesture = "PINCH" -> handlePinch(position)
      [] gesture = "FIST" -> handleFist(position)
      [] gesture = "PALM" -> handlePalm(handMovement)
      [] gesture = "PEACE" -> handlePeace
      [] gesture = "SWIPE_LEFT" -> handleSwipeLeft
      [] gesture = "SWIPE_RIGHT" -> handleSwipeRight
      [] gesture = "NONE" -> handleNone

\* a frame with a hand
HandFrame ==
    /\ Budget
    /\ \E h \in FrameHands, mlResult \in Predictions :
        LET landmarks == Landmarks(h)
            rule == recognize(landmarks, previousHandPosition, swipeStartPosition,
                              swipeStartTime, now)
            gestureData == IF useMLClassifier /\ isTrained
                           THEN convertMLResultToGesture(mlResult)
                           ELSE [gesture |-> rule.gesture, confidence |-> rule.confidence,
                                 position |-> rule.position]
            prev == IF useMLClassifier /\ isTrained THEN previousHandPosition
                    ELSE rule.previousHandPosition
            mv == getHandMovement(landmarks, prev)
        IN  /\ swipeStartPosition' = IF useMLClassifier /\ isTrained THEN swipeStartPosition
                                     ELSE rule.swipeStartPosition
            /\ swipeStartTime' = IF useMLClassifier /\ isTrained THEN swipeStartTime
                                 ELSE rule.swipeStartTime
            /\ previousHandPosition' = mv.previousHandPosition
            /\ rec' = [EmptyRec EXCEPT !.name = "frame", !.input = h,
                          !.gesture = gestureData.gesture,
                          !.confidence = gestureData.confidence,
                          !.position = gestureData.position,
                          !.movement = mv.ret,
                          !.predicted = mlResult.gesture,
                          !.prePrev = previousHandPosition,
                          !.preStart = swipeStartPosition,
                          !.preStartTime = swipeStartTime, !.at = now,
                          !.afterGap = (rec.name = "noHand")]
            /\ \E a \in FrameAnchors(gestureData.gesture) :
                  processResults(gestureData.gesture, a, mv.ret)

\* a frame in which no hand is detected: only the display changes
NoHandFrame ==
    /\ Budget
    /\ rec' = [EmptyRec EXCEPT !.name = "noHand", !.at = now]
    /\ UNCHANGED <<worldVars, histVars, currentMode, currentColorIndex,
                   lastActionTime, lastColorChangeTime, lastUndoTime,
                   lastCursorPosition, isOrbitActive, cursor, now, frame, pend,
                   trail, previousHandPosition, swipeStartPosition, swipeStartTime>>

----------------------------------------------------------------------------

Init ==
    /\ voxels = <<>>
    /\ seen = <<>>
    /\ op = EmptyOp
    /\ history = <<>>
    /\ currentIndex = -1
    /\ maxHistory = DefaultMaxHistory
    /\ hop = EmptyHop
    /\ run = NewRun
    /\ InitDispatcher
    /\ InitRecognizer
    /\ frames = MaxFrames

InitPipeline ==
    /\ voxels = <<>>
    /\ seen = <<>>
    /\ op = EmptyOp
    /\ history = <<>>
    /\ currentIndex = -1
    /\ maxHistory = DefaultMaxHistory
    /\ hop = EmptyHop
    /\ run = NewRun
    /\ InitDispatcher
    /\ InitRecognizer
    /\ frames = MaxPipelineFrames

\* the application, followed for an editing session
InitEdit ==
    /\ voxels = <<>>
    /\ seen = <<>>
    /\ op = EmptyOp
    /\ history = <<>>
    /\ currentIndex = -1
    /\ maxHistory = DefaultMaxHistory
    /\ hop = EmptyHop
    /\ run = NewRun
    /\ InitDispatcher
    /\ InitRecognizer
    /\ frames = -1

\* a HistoryManager constructed with a cap of its caller's choice
InitHistory ==
    /\ voxels = <<>>
    /\ seen = <<>>
    /\ op = EmptyOp
    /\ history = <<>>
    /\ currentIndex = -1
    /\ maxHistory \in 1..MaxCap
    /\ hop = EmptyHop
    /\ run = NewRun
    /\ InitDispatcher
    /\ InitRecognizer
    /\ frames = MaxFrames

Next ==
    \/ Point \/ Pinch \/ Fist \/ Palm \/ Peace
    \/ SwipeLeft \/ SwipeRight \/ None
    \/ SetColor \/ Tick \/ Wait

Spec == Init /\ [][Next]_vars

\* the voxels getHitFaceNormal is applied to, and the offsets of the point
\* from the voxel's centre along each axis: up to half a cell either way
NormalVoxels == { <<0, 0, 0>>, <<15, 1, 8>> }
Offsets == (0 - Half)..Half

\* one call of getHitFaceNormal(intersection, voxel)
HitFaceNormal ==
    /\ \E v \in NormalVoxels, dx \in Offsets, dy \in Offsets, dz \in Offsets :
          LET p == <<Unit * v[1] + dx, Unit * v[2] + dy, Unit * v[3] + dz>>
          IN  rec' = [name |-> "getHitFaceNormal", intersection |-> p, voxel |-> v,
                      normal |-> getHitFaceNormal(p, v[1], v[2], v[3])]
    /\ UNCHANGED <<worldVars, histVars, dispVars, previousHandPosition,
                   swipeStartPosition, swipeStartTime>>

NextNormal == HitFaceNormal

SpecNormal == Init /\ [][NextNormal]_vars

\* Canvas2DRenderer.interpolateBlocks(x0, y0, x1, y1, color): the locals of a
\* call as it enters its loop; blocks: the drawBlock calls made so far
interpolateBlocks(x0, y0, x1, y1) ==
    [pc |-> "loop", x0 |-> x0, y0 |-> y0, x1 |-> x1, y1 |-> y1,
     dx |-> Abs(x1 - x0), dy |-> Abs(y1 - y0),
     sx |-> IF x0 < x1 THEN 1 ELSE -1,
     sy |-> IF y0 < y1 THEN 1 ELSE -1,
     err |-> Abs(x1 - x0) - Abs(y1 - y0),
     from |-> <<x0, y0>>, blocks |-> <<>>]

\* a loop that stops as soon as the column of the end block is reached
loopBody_StopsAtColumn(l) ==
    LET drawn == Append(l.blocks, <<l.x0, l.y0>>)
        e2 == 2 * l.err
        stepX == e2 > 0 - l.dy
        stepY == e2 < l.dx
    IN  IF l.x0 = l.x1
        THEN [l EXCEPT !.pc = "done", !.blocks = drawn]
        ELSE [l EXCEPT !.blocks = drawn,
                       !.err = (IF stepX THEN l.err - l.dy ELSE l.err)
                               + (IF stepY THEN l.dx ELSE 0),
                       !.x0 = IF stepX THEN l.x0 + l.sx ELSE l.x0,
                       !.y0 = IF stepY THEN l.y0 + l.sy ELSE l.y0]

\* one pass through the body of the while loop
loopBody(l) ==
    LET drawn == Append(l.blocks, <<l.x0, l.y0>>)
        e2 == 2 * l.err
        stepX == e2 > 0 - l.dy
        stepY == e2 < l.dx
    IN  IF l.x0 = l.x1 /\ l.y0 = l.y1
        THEN [l EXCEPT !.pc = "done", !.blocks = drawn]
        ELSE [l EXCEPT !.blocks = drawn,
                       !.err = (IF stepX THEN l.err - l.dy ELSE l.err)
                               + (IF stepY THEN l.dx ELSE 0),
                       !.x0 = IF stepX THEN l.x0 + l.sx ELSE l.x0,
                       !.y0 = IF stepY THEN l.y0 + l.sy ELSE l.y0]

Coords == 0..MaxCoord

\* draw() calls interpolateBlocks from the last grid position to the current
\* one; the call runs to its end before the next one starts
InterpolateBlocks ==
    /\ rec.name = "interpolateBlocks" => rec.line.pc = "done"
    /\ \E x0 \in Coords, y0 \in Coords, x1 \in Coords, y1 \in Coords :
          rec' = [name |-> "interpolateBlocks", line |-> interpolateBlocks(x0, y0, x1, y1)]
    /\ UNCHANGED <<worldVars, histVars, dispVars, previousHandPosition,
                   swipeStartPosition, swipeStartTime>>

\* the running call makes one pass through its loop
LoopBody ==
    /\ rec.name = "interpolateBlocks"
    /\ rec.line.pc = "loop"
    /\ rec' = [rec EXCEPT !.line = loopBody(rec.line)]
    /\ UNCHANGED <<worldVars, histVars, dispVars, previousHandPosition,
                   swipeStartPosition, swipeStartTime>>

NextLine == InterpolateBlocks \/ LoopBody

\* the loop is not suspended: a call that can make a pass makes it
SpecLine == Init /\ [][NextLine]_vars /\ WF_vars(LoopBody)

NextPipeline == HandFrame \/ NoHandFrame \/ Tick

SpecPipeline == InitPipeline /\ [][NextPipeline]_vars

NextRecognizer == Recognize \/ GetHandMovement \/ Elapse

SpecRecognizer == Init /\ [][NextRecognizer]_vars

\* the gestures that edit the world or move in the history
NextEdit == Pinch \/ Fist \/ SwipeLeft \/ SwipeRight \/ Wait

SpecEdit == InitEdit /\ [][NextEdit]_vars

NextHistory == SaveState \/ Undo \/ Redo \/ HistoryClear

SpecHistory == InitHistory /\ [][NextHistory]_vars

NextWorld == AddVoxel \/ RemoveVoxel \/ Clear \/ SetState

SpecWorld == Init /\ [][NextWorld]_vars

----------------------------------------------------------------------------
(* VoxelWorld: properties, checked under SpecWorld *)

InGrid(x, y, z) == {x, y, z} \subseteq 0..(GRID_SIZE - 1)

OpPos(o) == InGrid(o.pos[1], o.pos[2], o.pos[3])

\* C3: during setState(blob) every observer callback sees, through
\* getAllVoxels(), either the complete content from before the call or the
\* complete content encoded by blob, never an intermediate content.
C3_SetStateAtomic ==
    op.name = "setState" =>
        \A i \in 1..Len(seen) :
            \/ seen[i] = getAllVoxels(op.pre)
            \/ seen[i] = getAllVoxels(voxels)

\* C4: every setState call notifies each observer exactly once, after the new
\* content is in place; restoring the empty world over a non-empty one
\* notifies too.
C4_SetStateNotifiesOnce ==
    op.name = "setState" => (Len(seen) = 1 /\ seen[1] = getAllVoxels(voxels))

\* C5: after any sequence of addVoxel, removeVoxel, clear and setState with
\* coordinates inside or outside the grid, every stored coordinate lies in
\* [0, GRID_SIZE) on the three axes and no coordinate holds two voxels.
C5_StoreInBoundsUnique ==
    LET all == getAllVoxels(voxels)
    IN  /\ \A i \in 1..Len(all) : InGrid(all[i].x, all[i].y, all[i].z)
        /\ \A i, j \in 1..Len(all) :
              (all[i].x = all[j].x /\ all[i].y = all[j].y /\ all[i].z = all[j].z)
                  => i = j

\* a call with an out-of-grid coordinate was made on a world holding a voxel
C5_Witness ==
    /\ op.name \in {"addVoxel", "setState"}
    /\ Len(voxels) = 2
    /\ \/ op.name = "addVoxel" /\ ~OpPos(op)
       \/ op.name = "setState" /\ Len(op.blob) > Len(voxels)

\* C6: addVoxel of a coordinate with an axis outside [0, GRID_SIZE) returns
\* not-added, leaves content and size unchanged and notifies nobody.
C6_AddOutOfBounds ==
    (op.name = "addVoxel" /\ ~OpPos(op)) =>
        /\ ~op.ret.added
        /\ voxels = op.pre
        /\ getCount(voxels) = getCount(op.pre)
        /\ seen = <<>>

C6_Witness ==
    /\ op.name = "addVoxel"
    /\ op.pos = <<0, 16, 0>>
    /\ Len(op.pre) > 0
    /\ ~op.ret.added

\* C7: setState(getState()) leaves the enumerated voxel set (coordinates and
\* color indices) as it was.
C7_RoundTrip ==
    (op.name = "setState" /\ op.blob = getState(op.pre)) =>
        VoxelSet(voxels) = VoxelSet(op.pre)

C7_Witness ==
    /\ op.name = "setState"
    /\ op.blob = getState(op.pre)
    /\ Len(op.pre) = 2
    /\ \E i \in 1..2 : getAllVoxels(voxels)[i].x = 15 /\ getAllVoxels(voxels)[i].colorIndex = 7

\* C8: removeVoxel notifies only when an entry was removed; a second
\* removeVoxel of the same coordinate reports nothing removed, changes
\* nothing and notifies nobody.
C8_RemoveNotifiesIffRemoved ==
    op.name = "removeVoxel" =>
        /\ op.ret.removed <=> hasVoxel(op.pre, op.pos[1], op.pos[2], op.pos[3])
        /\ (seen # <<>>) <=> op.ret.removed
        /\ ~op.ret.removed => voxels = op.pre
        /\ op.again => (~op.ret.removed /\ voxels = op.pre /\ seen = <<>>)

C8_Witness ==
    /\ op.name = "removeVoxel"
    /\ op.again
    /\ Len(voxels) > 0

----------------------------------------------------------------------------
(* HistoryManager: properties, checked under SpecHistory *)

\* C9: after any sequence of saveState, undo and redo with cap >= 1, a
\* non-empty history has 0 <= currentIndex < history.length, and
\* history.length never exceeds the cap.
C9_CursorInRange ==
    /\ Len(history) <= maxHistory
    /\ Len(history) > 0 => (0 <= currentIndex /\ currentIndex < Len(history))

\* a saveState at the cap evicted the oldest entry
C9_Witness ==
    /\ hop.name = "saveState"
    /\ maxHistory >= 2
    /\ Len(hop.preHistory) = maxHistory
    /\ hop.preIndex = maxHistory - 1
    /\ Len(history) = maxHistory

\* C10 as stated: after N saveState calls and then M undo calls,
\* 1 <= M <= N, canRedo() is true, and M redo calls bring the cursor and
\* the entry under it back to what they were before the undos.
C10_UndoRedo ==
    /\ (run.phase = "undo" /\ 1 <= run.undos /\ run.undos <= run.saves)
            => canRedo(history, currentIndex)
    /\ (run.phase = "redo" /\ run.redos = run.undos)
            => /\ currentIndex = run.index0
               /\ Current(history, currentIndex) = run.entry0

\* C10 amended: canRedo() is true when at least two entries are stored
\* (N >= 2 and cap >= 2); with a single stored entry undo is a no-op and
\* canRedo() is false.  The M redo calls bring cursor and entry back.
C10_UndoRedoAmended ==
    /\ (run.phase = "undo" /\ 1 <= run.undos /\ run.undos <= run.saves)
            => (canRedo(history, currentIndex) <=> (run.saves >= 2 /\ maxHistory >= 2))
    /\ (run.phase = "redo" /\ run.redos = run.undos)
            => /\ currentIndex = run.index0
               /\ Current(history, currentIndex) = run.entry0

C10_Witness ==
    /\ run.phase = "redo"
    /\ run.saves = 3
    /\ run.undos = 2
    /\ run.redos = 2
    /\ currentIndex = 2
    /\ ~hop.ret.isNull

----------------------------------------------------------------------------
(* GestureActions: properties, checked under SpecEdit *)

\* C1: after a PINCH or FIST that changed the world, the next SWIPE_LEFT
\* processed with the undo cooldown elapsed (no other mutating gesture in
\* between) restores the world to the voxel set it had immediately before
\* that mutation, for the first mutation of a session as for later ones.
C1_UndoRestoresPreAction ==
    (frame.gesture = "SWIPE_LEFT" /\ frame.acted /\ frame.armed) =>
        VoxelSet(voxels) = VoxelSet(frame.armedPre)

Cell(e) == [x |-> e.x, y |-> e.y, z |-> e.z, colorIndex |-> e.colorIndex]

\* C2: from an empty world and history, PINCH inserts v, FIST striking v
\* removes it; the following SWIPE_LEFT restores the world to the content
\* holding v and the following SWIPE_RIGHT empties it again.
C2_PinchFistLeftRight ==
    (/\ Len(trail) \in {3, 4}
     /\ trail[1].g = "PINCH" /\ trail[2].g = "FIST"
     /\ <<trail[2].x, trail[2].y, trail[2].z>> = <<trail[1].x, trail[1].y, trail[1].z>>
     /\ trail[3].g = "SWIPE_LEFT")
        => /\ Len(trail) = 3 => VoxelSet(voxels) = {Cell(trail[1])}
           /\ (Len(trail) = 4 /\ trail[4].g = "SWIPE_RIGHT") => VoxelSet(voxels) = {}

----------------------------------------------------------------------------
(* HistoryManager: saveState, undo and redo call by call, under SpecHistory *)

\* C11: saveState with the cursor before the end discards every entry after
\* the cursor, appends, and leaves the cursor on the new last entry; after a
\* saveState that follows an undo, canRedo() is false.
C11_SaveTruncatesFuture ==
    hop.name = "saveState" =>
        LET kept == SubSeq(hop.preHistory, 1, hop.preIndex + 1)
            evicted == IF Len(kept) + 1 > maxHistory THEN 1 ELSE 0
        IN  /\ Len(history) = Len(kept) + 1 - evicted
            /\ SubSeq(history, 1, Len(history) - 1) = SubSeq(kept, 1 + evicted, Len(kept))
            /\ currentIndex = Len(history) - 1
            /\ ~canRedo(history, currentIndex)

\* a saveState made after an undo that had moved the cursor down
C11_Witness ==
    /\ hop.name = "saveState"
    /\ hop.preIndex < Len(hop.preHistory) - 1
    /\ hop.preIndex >= 0
    /\ Len(history) = hop.preIndex + 2
    /\ Len(history) < Len(hop.preHistory)

\* C12: cap+1 saveState calls leave cap entries, the first pushed one
\* evicted, the others in push order, the cursor on the newest.
C12_CapEvictsOldest ==
    (run.phase = "save" /\ run.saves = maxHistory + 1) =>
        /\ Len(history) = maxHistory
        /\ history = Tail(run.pushed)
        /\ currentIndex = maxHistory - 1
        /\ Current(history, currentIndex) = Entry(run.pushed[maxHistory + 1])

\* three different states pushed on a manager of cap 2
C12_Witness ==
    /\ run.phase = "save"
    /\ maxHistory = 2
    /\ run.saves = 3
    /\ run.pushed[1] # run.pushed[2]
    /\ run.pushed[2] # run.pushed[3]
    /\ run.pushed[1] # run.pushed[3]

\* C13: undo() returns an entry and decrements the cursor exactly when
\* canUndo() was true, redo() returns an entry and increments it exactly
\* when canRedo() was true; otherwise they return nothing and leave the
\* cursor alone; neither changes the stored entries.
C13_UndoRedoGuards ==
    /\ hop.name = "undo" =>
          /\ history = hop.preHistory
          /\ IF canUndo(hop.preHistory, hop.preIndex)
             THEN /\ currentIndex = hop.preIndex - 1
                  /\ hop.ret = Entry(hop.preHistory[currentIndex + 1])
             ELSE currentIndex = hop.preIndex /\ hop.ret = Null
    /\ hop.name = "redo" =>
          /\ history = hop.preHistory
          /\ IF canRedo(hop.preHistory, hop.preIndex)
             THEN /\ currentIndex = hop.preIndex + 1
                  /\ hop.ret = Entry(hop.preHistory[currentIndex + 1])
             ELSE currentIndex = hop.preIndex /\ hop.ret = Null

\* an undo from the second entry down to the first
C13_Witness ==
    /\ hop.name = "undo"
    /\ hop.preIndex = 1
    /\ currentIndex = 0
    /\ ~hop.ret.isNull

-----------------------------------------------------------------------------
(* The intersector and the editing gestures: properties, checked under SpecEdit *)

\* C14: whenever a PINCH adds a voxel, the target cell the intersector
\* returned is inside the grid and held no voxel immediately before the add:
\* a placement never overwrites an existing voxel.
C14_PinchTargetsEmptyCell ==
    (frame.gesture = "PINCH" /\ frame.acted) =>
        /\ InGrid(frame.target.x, frame.target.y, frame.target.z)
        /\ ~\E v \in VoxelSet(frame.pre) :
              <<v.x, v.y, v.z>> = <<frame.target.x, frame.target.y, frame.target.z>>

\* voxel v of world w is the first thing the ray strikes: the ray enters its
\* box before every other box and before it reaches the ground
FirstStruck(w, ray, v) ==
    LET b == intersectBox(ray, v.x, v.y, v.z)
        g == intersectGround(ray)
    IN  /\ b.hit
        /\ g.hit => b.t < g.t
        /\ \A u \in VoxelSet(w) \ {v} :
              LET c == intersectBox(ray, u.x, u.y, u.z)
              IN  c.hit => b.t < c.t

\* C15: whenever the first thing the ray of a FIST strikes is a voxel, the
\* intersector's result carries hitVoxel equal to that voxel, and if the
\* action cooldown has elapsed the FIST removes exactly that voxel.
C15_FistRemovesFirstStruck ==
    \A v \in VoxelSet(frame.pre) :
        (/\ frame.gesture = "FIST"
         /\ ~frame.position.isNull
         /\ FirstStruck(frame.pre, frame.position, v)) =>
            /\ ~frame.target.isNull
            /\ frame.target.hasHit
            /\ <<frame.target.hx, frame.target.hy, frame.target.hz>> = <<v.x, v.y, v.z>>
            /\ (frame.acted \/ now - lastActionTime > ACTION_DEBOUNCE) =>
                  /\ frame.acted
                  /\ VoxelSet(voxels) = VoxelSet(frame.pre) \ {v}

-----------------------------------------------------------------------------
(* The dispatcher: properties, checked under Spec *)

Emitted(f, k) == { i \in 1..Len(f.events) : f.events[i][1] = k }

\* C17: in every call of the dispatcher or of setColor a modeChange event
\* is emitted exactly when the mode takes a value different from its
\* previous one, and a colorChange event exactly when the selected color
\* index takes a value different from its previous one.
C17_EventsIffChange ==
    [][now' = now =>
        /\ Emitted(frame', "modeChange") # {} <=> currentMode' # currentMode
        /\ Emitted(frame', "colorChange") # {} <=>
              currentColorIndex' # currentColorIndex]_vars

\* the step is a call of the dispatcher that executed gesture g
Executed(g) == now' = now /\ frame'.acted /\ frame'.gesture = g

\* C18: an executed action comes more than its class's cooldown after the
\* executed action of that class before it, whose time the class's
\* timestamp holds: PINCH and FIST more than 300 ms, PEACE more than 500 ms,
\* SWIPE_LEFT and SWIPE_RIGHT more than 600 ms.
C18_CooldownSeparates ==
    [][/\ (Executed("PINCH") \/ Executed("FIST")) =>
             now - lastActionTime > 300 /\ lastActionTime' = now
       /\ Executed("PEACE") =>
             now - lastColorChangeTime > 500 /\ lastColorChangeTime' = now
       /\ (Executed("SWIPE_LEFT") \/ Executed("SWIPE_RIGHT")) =>
             now - lastUndoTime > 600 /\ lastUndoTime' = now]_vars

\* a second PINCH executed 301 ms after the first
C18_Witness ==
    /\ frame.gesture = "PINCH"
    /\ frame.acted
    /\ Len(history) = 2
    /\ lastActionTime = StartTime + 301
    /\ now = lastActionTime

\* the step is a call of the dispatcher with gesture g
Dispatched(g) == now' = now /\ frame'.gesture = g

\* C19: the three cooldowns are independent: a dispatched gesture leaves
\* the timestamps of the other two classes unchanged, and it is executed
\* exactly when its own class's cooldown has elapsed (and, for PINCH and
\* FIST, the intersector gave it a target), whatever the other timestamps
\* hold; so a PEACE right after an executed PINCH cycles the color.
C19_CooldownsIndependent ==
    [][/\ (Dispatched("PINCH") \/ Dispatched("FIST")) =>
             /\ lastColorChangeTime' = lastColorChangeTime
             /\ lastUndoTime' = lastUndoTime
       /\ Dispatched("PINCH") =>
             (frame'.acted <=> ~frame'.target.isNull /\ now - lastActionTime > 300)
       /\ Dispatched("FIST") =>
             (frame'.acted <=> /\ ~frame'.target.isNull /\ frame'.target.hasHit
                               /\ now - lastActionTime > 300)
       /\ Dispatched("PEACE") =>
             /\ lastActionTime' = lastActionTime
             /\ lastUndoTime' = lastUndoTime
             /\ frame'.acted <=> now - lastColorChangeTime > 500
             /\ frame'.acted => currentColorIndex' = (currentColorIndex + 1) % 8
       /\ (Dispatched("SWIPE_LEFT") \/ Dispatched("SWIPE_RIGHT")) =>
             /\ lastActionTime' = lastActionTime
             /\ lastColorChangeTime' = lastColorChangeTime
             /\ frame'.acted <=> now - lastUndoTime > 600]_vars

\* a PEACE that cycled the color in the same instant as the executed PINCH
\* before it
C19_Witness ==
    /\ frame.gesture = "PEACE"
    /\ frame.acted
    /\ lastActionTime = now
    /\ lastColorChangeTime = now
    /\ currentColorIndex = 1
    /\ voxels # <<>>

\* the cooldown of the class of gesture g has not elapsed
Cooling(g) ==
    CASE g \in {"PINCH", "FIST"} -> now - lastActionTime <= 300
      [] g = "PEACE" -> now - lastColorChangeTime <= 500
      [] g \in {"SWIPE_LEFT", "SWIPE_RIGHT"} -> now - lastUndoTime <= 600
      [] OTHER -> FALSE

\* C20: a PINCH, FIST, PEACE, SWIPE_LEFT or SWIPE_RIGHT dispatched before
\* its class's cooldown has elapsed leaves the world content, the history
\* (entries and cursor), the selected color index and the three debounce
\* timestamps unchanged, notifies no world observer and emits no
\* colorChange.
C20_SuppressedIsNoOp ==
    [][(now' = now /\ Cooling(frame'.gesture)) =>
        /\ voxels' = voxels /\ seen' = <<>>
        /\ history' = history /\ currentIndex' = currentIndex
        /\ currentColorIndex' = currentColorIndex
        /\ lastActionTime' = lastActionTime
        /\ lastColorChangeTime' = lastColorChangeTime
        /\ lastUndoTime' = lastUndoTime
        /\ Emitted(frame', "colorChange") = {}]_vars

\* a PINCH with a target, dispatched 300 ms after an executed PINCH
C20_Witness ==
    /\ frame.gesture = "PINCH"
    /\ ~frame.acted
    /\ ~frame.target.isNull
    /\ now - lastActionTime = 300
    /\ Len(voxels) = 1
    /\ Len(history) = 1

\* C21: after processResults handles gesture g the mode is PLACE for POINT
\* and PINCH, DELETE for FIST, ORBIT for PALM, COLOR for PEACE, and the mode
\* from before the call for SWIPE_LEFT, SWIPE_RIGHT and NONE, whether or not
\* a cooldown suppressed the gesture or the intersector found a target.
C21_ModeOfGesture ==
    [][/\ (Dispatched("POINT") \/ Dispatched("PINCH")) => currentMode' = "PLACE MODE"
       /\ Dispatched("FIST") => currentMode' = "DELETE MODE"
       /\ Dispatched("PALM") => currentMode' = "ORBIT MODE"
       /\ Dispatched("PEACE") => currentMode' = "COLOR MODE"
       /\ (Dispatched("SWIPE_LEFT") \/ Dispatched("SWIPE_RIGHT") \/ Dispatched("NONE")) =>
             currentMode' = currentMode]_vars

\* a NONE after a FIST that was suppressed by the cooldown of a PINCH
C21_Witness ==
    /\ frame.gesture = "NONE"
    /\ currentMode = "DELETE MODE"
    /\ now - lastActionTime <= 300
    /\ voxels # <<>>

\* C30: every PALM frame hides the cursor and sets the orbit-active flag;
\* the hand movement is fed to the orbit only if the flag was already set
\* before the frame, so the first PALM after a POINT, PINCH, FIST or NONE
\* applies no orbit
C30_PalmOrbitsOnceActive ==
    [][Dispatched("PALM") =>
        /\ ~cursor'.visible
        /\ isOrbitActive'
        /\ frame'.orbit.applied => isOrbitActive
        /\ frame.gesture \in {"POINT", "PINCH", "FIST", "NONE"} =>
              ~frame'.orbit.applied]_vars

\* a PALM frame that orbited, after a voxel was placed
C30_Witness ==
    /\ frame.gesture = "PALM"
    /\ frame.orbit.applied
    /\ frame.orbit.dx # 0
    /\ ~cursor.visible
    /\ isOrbitActive
    /\ voxels # <<>>

\* C31: a PEACE processed with the color cooldown elapsed sets the selected
\* color index to (previous + 1) mod 8, wrapping from 7 to 0, and the index
\* stays within 0..7 after any sequence of gestures and palette selections
C31_ColorCycles ==
    /\ [](currentColorIndex \in 0..7)
    /\ [][(Dispatched("PEACE") /\ now - lastColorChangeTime > 500) =>
             currentColorIndex' = (currentColorIndex + 1) % 8]_vars

\* an executed PEACE that wrapped the index from 7 to 0
C31_Witness ==
    /\ frame.gesture = "PEACE"
    /\ frame.acted
    /\ currentColorIndex = 0
    /\ lastColorChangeTime = now

\* C32: a PEACE touches the cursor only if a cursor is shown: a cursor that
\* is hidden when the PEACE is processed is still hidden after it
C32_PeaceKeepsCursorHidden ==
    [][(Dispatched("PEACE") /\ ~cursor.visible) => ~cursor'.visible]_vars

\* C36: the orbit-active flag is set by PALM, cleared by POINT, PINCH, FIST
\* and NONE and by nothing else, and a PALM frame calls orbitCamera exactly
\* when it came with a hand movement and the flag was set; so the orbit is
\* applied iff a movement is present and every gesture dispatched since the
\* most recent earlier PALM is PEACE, SWIPE_LEFT or SWIPE_RIGHT
C36_OrbitFlagLifetime ==
    [][/\ Dispatched("PALM") =>
             /\ isOrbitActive'
             /\ frame'.orbit.applied <=> (frame'.orbit.given /\ isOrbitActive)
       /\ (Dispatched("POINT") \/ Dispatched("PINCH") \/ Dispatched("FIST")
              \/ Dispatched("NONE")) => ~isOrbitActive'
       /\ (Dispatched("PEACE") \/ Dispatched("SWIPE_LEFT") \/ Dispatched("SWIPE_RIGHT")) =>
             isOrbitActive' = isOrbitActive
       /\ (isOrbitActive /\ ~isOrbitActive') =>
             (now' = now /\ frame'.gesture \in {"POINT", "PINCH", "FIST", "NONE"})]_vars

\* an executed PEACE after a PALM, the flag still set
C36_Witness ==
    /\ frame.gesture = "PEACE"
    /\ frame.acted
    /\ isOrbitActive
    /\ currentMode = "COLOR MODE"

\* C38: whenever the cursor is visible its coordinate is a valid grid
\* position, and a request to show the cursor at null or at a coordinate
\* outside the grid hides it
C38_CursorInGrid ==
    /\ cursor.visible => InGrid(cursor.x, cursor.y, cursor.z)
    /\ ~setCursorPosition(cursor, TRUE, 0, 0, 0, currentColorIndex).visible
    /\ \A p \in Positions :
          ~InGrid(p[1], p[2], p[3]) =>
              ~setCursorPosition(cursor, FALSE, p[1], p[2], p[3], currentColorIndex).visible

\* a FIST that shows the cursor on the voxel it struck
C38_Witness ==
    /\ frame.gesture = "FIST"
    /\ frame.target.hasHit
    /\ cursor.visible
    /\ <<cursor.x, cursor.y, cursor.z>> = <<frame.target.hx, frame.target.hy, frame.target.hz>>

----------------------------------------------------------------------------
(* GestureRecognizer: properties, checked under SpecRecognizer *)

Swipes == {"SWIPE_LEFT", "SWIPE_RIGHT"}

\* the last call was recognize on an array with at least one landmark
OnHand == rec.name = "recognize" /\ ~rec.input.isNull /\ rec.input.count > 0

\* the hand of the last call, as it was made: thumb and fingers extended,
\* thumb tip within the pinch distance of the index tip
Made ==
    [thumb |-> rec.input.thumbTip \in {<<-50, -60>>, <<-70, -60>>},
     pinch |-> rec.input.thumbTip \in {<<-50, -60>>, <<-30, -30>>},
     index |-> rec.input.index, middle |-> rec.input.middle,
     ring |-> rec.input.ring, pinky |-> rec.input.pinky]

MadeCount ==
    Cardinality({ f \in {"thumb", "index", "middle", "ring", "pinky"} : Made[f] })

\* what the swipe detector answered in the last call
SwipeOutcome ==
    detectSwipe(Landmarks(rec.input).pts, rec.preStart, rec.preStartTime, rec.at).swipe

\* C22: recognize on a hand of 21 landmarks returns the first match in the
\* order swipe, pinch, fist (at most one finger extended), peace, open palm
\* (at least four extended), point, none; a hand within the pinch distance
\* with at most one finger extended is PINCH, not FIST.
C22_RecognizePriority ==
    (OnHand /\ rec.input.count = 21) =>
        /\ ~rec.threw
        /\ rec.gesture =
             IF SwipeOutcome # "null" THEN SwipeOutcome
             ELSE IF Made.pinch THEN "PINCH"
             ELSE IF MadeCount <= 1 THEN "FIST"
             ELSE IF Made.index /\ Made.middle /\ ~Made.ring /\ ~Made.pinky THEN "PEACE"
             ELSE IF MadeCount >= 4 THEN "PALM"
             ELSE IF Made.index /\ ~Made.middle /\ ~Made.ring /\ ~Made.pinky THEN "POINT"
             ELSE "NONE"

\* a pinching hand with no finger extended, classified PINCH
C22_Witness ==
    /\ OnHand /\ rec.input.count = 21
    /\ Made.pinch /\ MadeCount = 0
    /\ rec.gesture = "PINCH"

\* displacement of the wrist of the last call from the latched start, and the
\* time since the latch
SwipeDx == rec.input.w[1] - rec.preStart.x
SwipeDy == rec.input.w[2] - rec.preStart.y
SwipeDSq == SwipeDx * SwipeDx + SwipeDy * SwipeDy
SwipeDt == rec.at - rec.preStartTime.t

\* displacement over 0.2 and displacement / elapsed over 0.15 per second
Qualifies == SwipeDSq > 200 * 200 /\ 400 * SwipeDSq > 9 * SwipeDt * SwipeDt

\* C23: a swipe is returned only when, from the latched start, at most
\* 0.5 s have elapsed, the displacement exceeds 0.2 and displacement over
\* elapsed time exceeds 0.15 per second; a call more than 0.5 s after the
\* latch returns no swipe and latches the window at its own wrist position
\* and time.
C23_SwipeWithinWindow ==
    OnHand =>
        /\ rec.gesture \in Swipes =>
              ~rec.preStart.isNull /\ SwipeDt <= 500 /\ Qualifies
        /\ (~rec.preStart.isNull /\ SwipeDt > 500) =>
              /\ rec.gesture \notin Swipes
              /\ swipeStartPosition = Point2(rec.input.w[1], rec.input.w[2])
              /\ swipeStartTime = [isNull |-> FALSE, t |-> rec.at]

\* a displacement of 0.21 completed 501 ms after the latch
C23_Witness ==
    /\ OnHand
    /\ ~rec.preStart.isNull
    /\ SwipeDt = 501
    /\ SwipeDSq = 210 * 210
    /\ rec.gesture \notin Swipes
    /\ swipeStartTime.t = rec.at

\* C24: within the window, a qualifying displacement with |dx| > |dy| gives
\* SWIPE_LEFT for dx > 0 and SWIPE_RIGHT for dx < 0 and resets the window;
\* every other call within the window returns no swipe and keeps the latched
\* start position and time.
C24_SwipeDirectionOrKeep ==
    (OnHand /\ ~rec.preStart.isNull /\ SwipeDt <= 500) =>
        IF Qualifies /\ Abs(SwipeDx) > Abs(SwipeDy)
        THEN /\ rec.gesture = IF SwipeDx > 0 THEN "SWIPE_LEFT" ELSE "SWIPE_RIGHT"
             /\ swipeStartPosition.isNull
        ELSE /\ rec.gesture \notin Swipes
             /\ swipeStartPosition = rec.preStart
             /\ swipeStartTime = rec.preStartTime

\* C25: recognize on a missing or empty array or on one of fewer than 21
\* landmarks returns NONE with confidence 0, leaves no previous hand position
\* and no swipe window, and does not throw.
C25_IncompleteInput ==
    (rec.name = "recognize" /\ (rec.input.isNull \/ rec.input.count < 21)) =>
        /\ ~rec.threw
        /\ rec.gesture = "NONE" /\ rec.confidence = 0
        /\ previousHandPosition.isNull
        /\ swipeStartPosition.isNull

\* C33: a SWIPE_LEFT processed while there is nothing to undo (empty
\* history or cursor at 0), or a SWIPE_RIGHT while there is nothing to redo,
\* leaves the world and the history (entries and cursor) unchanged and fires
\* no world-change notification
C33_NothingToRestore ==
    [][(\/ Dispatched("SWIPE_LEFT") /\ currentIndex <= 0
        \/ Dispatched("SWIPE_RIGHT") /\ currentIndex >= Len(history) - 1) =>
            /\ voxels' = voxels
            /\ history' = history
            /\ currentIndex' = currentIndex
            /\ seen' = <<>>]_vars

\* a SWIPE_LEFT past its cooldown with one snapshot and the cursor on it
C33_Witness ==
    /\ frame.gesture = "SWIPE_LEFT"
    /\ frame.acted
    /\ hop.name = "undo"
    /\ hop.ret.isNull
    /\ Len(history) = 1
    /\ currentIndex = 0
    /\ voxels # <<>>

C35_NoSwipeTwiceInARow ==
    /\ (rec.name = "recognize" /\ rec.gesture \in Swipes) =>
          swipeStartPosition.isNull /\ swipeStartTime.isNull
    /\ (rec.name = "recognize" /\ rec.afterSwipe) =>
          /\ rec.gesture \notin Swipes
          /\ OnHand => swipeStartPosition = Point2(rec.input.w[1], rec.input.w[2])
          /\ OnHand => swipeStartTime = [isNull |-> FALSE, t |-> rec.at]

\* the call after a swipe, on a hand that is again a swipe's distance away
\* from where the swipe started
C35_Witness ==
    /\ OnHand /\ rec.input.count = 21
    /\ rec.afterSwipe
    /\ rec.input.w = HomeWrist
    /\ rec.gesture \notin Swipes
    /\ ~swipeStartPosition.isNull

\* the step is a PINCH or a FIST that passed its guards
Guarded == (Dispatched("PINCH") \/ Dispatched("FIST")) /\ frame'.acted

\* the step is a FIST that passed its guards and removed exactly the voxel it
\* struck, which was in the world
FistRemovesOne ==
    (Dispatched("FIST") /\ frame'.acted) =>
        /\ \E v \in VoxelSet(voxels) :
              /\ <<v.x, v.y, v.z>> = <<frame'.target.hx, frame'.target.hy, frame'.target.hz>>
              /\ VoxelSet(voxels') = VoxelSet(voxels) \ {v}
        /\ Cardinality(VoxelSet(voxels')) = Cardinality(VoxelSet(voxels)) - 1

\* C39: the history grows by exactly one snapshot for each PINCH or FIST
\* that passes its guards and by none for any other gesture, and every FIST
\* that pushes a snapshot then removes exactly one voxel
C39_OneSnapshotPerEdit ==
    [][/\ Guarded => Len(history') = Len(history) + 1
       /\ ~Guarded => Len(history') = Len(history)
       /\ FistRemovesOne]_vars

\* C39, amended: a PINCH or a FIST that passes its guards keeps the entries
\* up to the cursor, discards those past it and appends one snapshot, the
\* world as it was before the edit, on which it leaves the cursor (below the
\* cap); no other gesture changes the entries; and every FIST that pushes a
\* snapshot removes exactly the voxel it struck
C39_OneSnapshotPerEditAmended ==
    [][/\ (Guarded /\ currentIndex + 2 <= maxHistory) =>
             /\ history' = SubSeq(history, 1, currentIndex + 1) \o <<getState(voxels)>>
             /\ currentIndex' = currentIndex + 1
       /\ ~Guarded => history' = history
       /\ FistRemovesOne]_vars

\* a PINCH that pushed its snapshot over the entry an undo had stepped back
\* from: the history is as long as before
C39_Witness ==
    /\ frame.gesture = "PINCH"
    /\ frame.acted
    /\ hop.name = "saveState"
    /\ hop.preIndex < Len(hop.preHistory) - 1
    /\ Len(history) = Len(hop.preHistory)
    /\ currentIndex = hop.preIndex + 1

----------------------------------------------------------------------------
(* raycastToGrid: its result against the candidates, checked under SpecEdit *)

\* the frame cast a ray: a PINCH or a FIST with a position
CastRay == frame.gesture \in {"PINCH", "FIST"} /\ ~frame.position.isNull

\* C28: raycastToGrid returns null exactly when no candidate was recorded;
\* otherwise it returns a recorded candidate of least distance, and every
\* coordinate of the returned target lies inside the grid
C28_RaycastClosestCandidate ==
    CastRay =>
        LET c == Candidates(frame.pre, frame.position)
        IN  /\ frame.target.isNull <=> (Len(c) = 0)
            /\ ~frame.target.isNull =>
                  /\ \E i \in 1..Len(c) :
                        /\ c[i].pos = frame.target
                        /\ \A j \in 1..Len(c) : c[i].distance <= c[j].distance
                  /\ InGrid(frame.target.x, frame.target.y, frame.target.z)

\* a ray with a ground candidate and a nearer voxel candidate
C28_Witness ==
    /\ CastRay
    /\ ~frame.target.isNull
    /\ frame.target.hasHit
    /\ LET c == Candidates(frame.pre, frame.position)
       IN  Len(c) >= 2 /\ \E j \in 1..Len(c) : ~c[j].pos.hasHit /\ c[j].pos # frame.target

----------------------------------------------------------------------------
(* getHitFaceNormal: properties, checked under SpecNormal *)

\* the offset of the point of the last call from the voxel's centre along axis k
OffsetOf(k) == rec.intersection[k] - 4 * rec.voxel[k]

Magnitude(n) == IF n < 0 THEN 0 - n ELSE n

\* the axis the stated rule selects: X iff |dx| >= |dy| and |dx| >= |dz|,
\* otherwise Y iff |dy| >= |dz|, otherwise Z
RuleAxis ==
    IF Magnitude(OffsetOf(1)) >= Magnitude(OffsetOf(2))
          /\ Magnitude(OffsetOf(1)) >= Magnitude(OffsetOf(3)) THEN 1
    ELSE IF Magnitude(OffsetOf(2)) >= Magnitude(OffsetOf(3)) THEN 2
    ELSE 3

\* C29: getHitFaceNormal returns the unit normal along the axis of largest
\* absolute offset between the point and the voxel's centre, signed by that
\* offset, with ties going to X over Y over Z
C29_FaceNormalRule ==
    rec.name = "getHitFaceNormal" =>
        /\ \A k \in 1..3 : k # RuleAxis => rec.normal[k] = 0
        /\ rec.normal[RuleAxis] \in {-1, 1}
        /\ \A k \in 1..3 : Magnitude(OffsetOf(RuleAxis)) >= Magnitude(OffsetOf(k))
        /\ OffsetOf(RuleAxis) > 0 => rec.normal[RuleAxis] = 1
        /\ OffsetOf(RuleAxis) < 0 => rec.normal[RuleAxis] = -1

\* a point on an edge of the voxel, as far out along X as along Y
C29_Witness ==
    /\ rec.name = "getHitFaceNormal"
    /\ OffsetOf(1) = -2
    /\ OffsetOf(2) = 2
    /\ OffsetOf(3) = 1
    /\ rec.normal = <<-1, 0, 0>>

----------------------------------------------------------------------------
(* The frame pipeline: properties, checked under SpecPipeline *)

ZeroMovement == [isNull |-> FALSE, dx |-> 0, dy |-> 0]

\* C26: the first hand frame after one or more frames without a hand gets a
\* zero hand-movement delta, and a PALM on that frame feeds the orbit no jump
C26_NoJumpAfterGap ==
    (rec.name = "frame" /\ rec.afterGap) =>
        /\ rec.movement = ZeroMovement
        /\ (frame.gesture = "PALM" /\ frame.orbit.applied) =>
               (frame.orbit.dx = 0 /\ frame.orbit.dy = 0)

\* a step of the pipeline that is a frame with a hand
IsHandFrame == rec'.name = "frame" /\ frames' # frames /\ now' = now

\* C27: with the classifier as the source, the gesture dispatched is NONE for
\* a confidence below 0.6 and the symbol of the predicted class from 0.6 on;
\* a prediction below 0.6 changes neither mode, world, history nor color
C27_ConfidenceGate ==
    [][IsHandFrame =>
        /\ frame'.gesture =
               IF rec'.confidence < 60 THEN "NONE"
               ELSE CASE rec'.predicted = "none" -> "NONE"
                      [] rec'.predicted = "point" -> "POINT"
                      [] rec'.predicted = "pinch" -> "PINCH"
                      [] rec'.predicted = "fist" -> "FIST"
                      [] rec'.predicted = "palm" -> "PALM"
                      [] rec'.predicted = "peace" -> "PEACE"
        /\ rec'.confidence < 60 =>
               UNCHANGED <<currentMode, voxels, history, currentIndex,
                           currentColorIndex>>]_vars

C27_Witness ==
    /\ rec.name = "frame"
    /\ rec.predicted = "pinch"
    /\ rec.confidence = 59
    /\ frame.gesture = "NONE"
    /\ voxels # <<>>
    /\ currentMode = "PLACE MODE"

\* C37: while the classifier is the source of the gestures, the gesture
\* handed to the dispatcher is never SWIPE_LEFT or SWIPE_RIGHT, so the
\* history cursor never moves backward and the world is never restored from
\* a snapshot: PINCH and FIST push snapshots, undo and redo are never called
C37_NoUndoUnderClassifier ==
    /\ [](frame.gesture \notin {"SWIPE_LEFT", "SWIPE_RIGHT"})
    /\ [](hop.name \notin {"undo", "redo"})
    /\ [][currentIndex' >= currentIndex]_vars

\* a FIST that pushed a second snapshot
C37_Witness ==
    /\ rec.name = "frame"
    /\ rec.predicted = "fist"
    /\ frame.gesture = "FIST"
    /\ frame.acted
    /\ hop.name = "saveState"
    /\ Len(history) = 2
    /\ currentIndex = 1

----------------------------------------------------------------------------
(* Canvas2DRenderer.interpolateBlocks: properties, checked under SpecLine *)

\* a call of interpolateBlocks is running or has returned
Interpolating == rec.name = "interpolateBlocks"

Between(a, b, c) == (a <= b /\ b <= c) \/ (c <= b /\ b <= a)

\* the blocks drawn so far start at the start block, each is one of the 8
\* neighbours of the one before, all lie in the bounding box of the
\* endpoints, and a call that has returned drew the end block last
DrawnLine ==
    Interpolating =>
        LET l == rec.line
            b == l.blocks
        IN  /\ Len(b) >= 1 => b[1] = l.from
            /\ \A i \in 2..Len(b) :
                  /\ b[i] # b[i - 1]
                  /\ b[i][1] - b[i - 1][1] \in {-1, 0, 1}
                  /\ b[i][2] - b[i - 1][2] \in {-1, 0, 1}
            /\ \A i \in 1..Len(b) :
                  /\ Between(l.from[1], b[i][1], l.x1)
                  /\ Between(l.from[2], b[i][2], l.y1)
            /\ l.pc = "done" => (Len(b) >= 1 /\ b[Len(b)] = <<l.x1, l.y1>>)

\* C40: interpolateBlocks terminates for every pair of integer grid
\* endpoints; it draws the start block first and the end block last, each
\* step moves to one of the 8 neighbouring cells, and every drawn block lies
\* inside the bounding box of the two endpoints
C40_LineTerminates ==
    /\ []DrawnLine
    /\ (Interpolating /\ rec.line.pc = "loop") ~> (Interpolating /\ rec.line.pc = "done")

\* a returned call from (0,0) to (3,1): four blocks, one of the steps diagonal
C40_Witness ==
    /\ Interpolating
    /\ rec.line.pc = "done"
    /\ rec.line.from = <<0, 0>>
    /\ <<rec.line.x1, rec.line.y1>> = <<3, 1>>
    /\ Len(rec.line.blocks) = 4
============================================================================
